---- MODULE Spec2Model ----
(***************************************************************************)
(* Verification model of KivenRay/daily_stock_analysis.                    *)
(*                                                                         *)
(* The sub-systems share this module, each with its own specification:     *)
(*   SpecGuard     - the in-flight guard of api.py                         *)
(*   SpecMonitor   - the price monitor of price_monitor.py                 *)
(*   SpecIndicator - the strength rule of scanner_cn.is_strong_stock       *)
(*   SpecScan      - scan passes, data cache and persistence of            *)
(*                   scanner_cn.py                                         *)
(*   SpecStore     - save_strong_stocks_to_db on frames of its own         *)
(*   SpecCondition - _check_price_condition of price_monitor.py on one     *)
(*                   recommendation and one price                          *)
(*   SpecFetch     - is_strong_stock with failing external calls           *)
(*   SpecUniverse  - the listing of the universe and the pacing of a pass  *)
(*   SpecScheduler - the triggers and the loop of scheduler.py             *)
(*   SpecSchedulerLive - the same, with the fairness of the loop thread    *)
(*   SpecSetup     - setup_scheduler on drawn task configurations          *)
(*   SpecIngest    - the ingestion of AI recommendations (api.py, webui.py)*)
(*   SpecEnv       - _set_stock_list of webui.py on texts of the .env file *)
(* A specification leaves the variables of the other sub-systems at their  *)
(* initial values.                                                         *)
(***************************************************************************)
EXTENDS Integers, Sequences, FiniteSets, TLC

\* ------------------------------------------------------------------------
\* Bounds of the model
\* ------------------------------------------------------------------------
NumThreads == 3

NumCodes == 2

MaxPrice == 2

MaxTime == 4

TicksPerDay == 3

MaxRecs == 2

MaxRows == 2

MaxMA == 4

Threads == 1..NumThreads

Codes == 1..NumCodes

NoThread == 0

NoCode == 0

VARIABLES
    \* --- api.py: Concurrent-Task Guard ---
    ANALYSIS_IN_PROGRESS,   \* set of stock codes under analysis
    ANALYSIS_LOCK,          \* thread holding the lock, or NoThread
    pc,                     \* position of each background worker
    stock_code,             \* argument of each worker's invocation
    outcome,                \* how each worker's last invocation ended
    \* --- the wall clock (datetime.now) ---
    now,
    \* --- price_monitor.py: Threshold Monitor ---
    \* The monitor is followed for one instrument, TheStock: a push for a
    \* stock code reads and writes only rows of that code, so the rows of
    \* the other instruments are not kept.
    push_records,           \* TheStock's rows of the push table per (type, day)
    send_calls,             \* calls of notifier.send per (type, day)
    mpc,                    \* position of the monitor inside run_once
    m_left,                 \* recommendations of this tick not yet handled
    m_done,                 \* TheStock's recommendation was handled this tick
    m_price,                \* quote.price of the current recommendation
    tp_today,               \* history: the ticks that observed a take-profit
                            \* price of TheStock today, and whether every
                            \* lookup, save and notifier they reached worked
    m_last,                 \* history: what the last run_once since the clock
                            \* moved did ("none" before the first one), and
                            \* whether it wrote a log line
    m_push,                 \* history: what the _trigger_push calls for
                            \* TheStock did, per message type, for the
                            \* current recommendation and earlier today
    \* --- scanner_cn.py: the strength rule of is_strong_stock ---
    ind_in,                 \* what the two fetches returned for the symbol
    ind_out,                \* "pending", or the classification of ind_in
    ind_steps,              \* history: what the call that classified ind_in
                            \* went through, in order
    ind_flipped,            \* history: the condition made false since the
                            \* input was last classified Strong, or 0
    \* --- scanner_cn.py: scan passes, data cache and the strong_stocks table ---
    cache,                  \* the cache file of each symbol
    delisted,               \* symbols in the delisted-stocks file
    spc,                    \* position of scan_market
    s_delisted,             \* delisted_stocks, loaded when the pass started
    s_idx,                  \* symbols of `codes` handled in this pass
    results,                \* scan_market's list `results`
    skipped,                \* scan_market's list `skipped`
    passes,                 \* scan passes started
    reading,                \* datetime.now() at the resolution of the clock:
                            \* the number of distinct readings so far
    strong_stocks,          \* rows of the strong_stocks table
    lookup,                 \* history: the last call of is_strong_stock
                            \* of the running pass
    attempts,               \* history: per (scan_time, stock_code), the writes
                            \* that calls of save_strong_stocks_to_db with a
                            \* frame of their own sent to a working store
    s_trace,                \* history of the pass: the symbols whose fetch or
                            \* scoring raised, and what the end of the pass
                            \* did, in order
    \* --- scanner_cn.py: the universe and the pacing of a pass ---
    universe,               \* what the live source answered, and the list
                            \* get_all_stock_codes made of it
    pace,                   \* scan_market's loop over that list: its place,
                            \* the outcome of the last symbol, and history:
                            \* the delays and the pauses so far
    \* --- scheduler.py ---
    tasks,                  \* config.scheduled_tasks
    sched,                  \* the triggers registered with `schedule`, the
                            \* loop thread, the triggers that are due and
                            \* those whose job is executing; history: the
                            \* runs of each trigger and those that failed
    \* --- api.py, webui.py: ingestion of AI recommendations ---
    ai_recs,                \* the stored recommendations, by stock code:
                            \* NoRec, or the row with its is_push_msg
    ingest,                 \* history: what last touched the recommendations
                            \* (an ingested item or a monitor tick) and the
                            \* codes whose notification was delivered
    \* --- webui.py: the STOCK_LIST key of the .env file ---
    env_text,               \* the text of the .env file
    env_last,               \* history: the text before the last update and
                            \* the value that was posted
    \* --- price_monitor.py: _check_price_condition on one input ---
    chk_in,                 \* the six bounds of a recommendation and a price
    chk_out                 \* whether it was evaluated, and the message types
                            \* pushed for it

guardVars == <<ANALYSIS_IN_PROGRESS, ANALYSIS_LOCK, pc, stock_code, outcome>>

monitorVars == <<push_records, send_calls, mpc, m_left, m_done, m_price,
                 tp_today, m_last, m_push>>

indicatorVars == <<ind_in, ind_out, ind_steps, ind_flipped>>

scanVars == <<cache, delisted, spc, s_delisted, s_idx, results, skipped,
              passes, reading, strong_stocks, lookup, attempts, s_trace>>

conditionVars == <<chk_in, chk_out>>

universeVars == <<universe, pace>>

schedulerVars == <<tasks, sched>>

ingestVars == <<ai_recs, ingest>>

envVars == <<env_text, env_last>>

vars == <<guardVars, now, monitorVars, indicatorVars, scanVars,
          conditionVars, universeVars, schedulerVars, ingestVars, envVars>>

\* what a step of one sub-system leaves alone
notGuard ==
    <<now, monitorVars, indicatorVars, scanVars, conditionVars,
      universeVars, schedulerVars, ingestVars, envVars>>

notMonitor ==
    <<guardVars, indicatorVars, scanVars, conditionVars,
      universeVars, schedulerVars, ingestVars, envVars>>

notIndicator ==
    <<guardVars, now, monitorVars, scanVars, conditionVars,
      universeVars, schedulerVars, ingestVars, envVars>>

notScan ==
    <<guardVars, monitorVars, indicatorVars, conditionVars,
      universeVars, schedulerVars, ingestVars, envVars>>

notCondition ==
    <<guardVars, now, monitorVars, indicatorVars, scanVars,
      universeVars, schedulerVars, ingestVars, envVars>>

notUniverse ==
    <<guardVars, now, monitorVars, indicatorVars, scanVars, conditionVars,
      schedulerVars, ingestVars, envVars>>

notScheduler ==
    <<guardVars, now, monitorVars, indicatorVars, scanVars, conditionVars,
      universeVars, ingestVars, envVars>>

notIngest ==
    <<guardVars, now, monitorVars, indicatorVars, scanVars, conditionVars,
      universeVars, schedulerVars, envVars>>

notEnv ==
    <<guardVars, now, monitorVars, indicatorVars, scanVars, conditionVars,
      universeVars, schedulerVars, ingestVars>>

\* ------------------------------------------------------------------------
\* api.py: _perform_single_stock_analysis_task
\* ------------------------------------------------------------------------
AnalysisOutcomes == {"success", "failed", "exception"}

\* a membership test that never finds the key (the guard without its test)
AlreadyInProgress_never(code, inProgress) == FALSE

\* api.py:106  `if stock_code in ANALYSIS_IN_PROGRESS`
AlreadyInProgress(code, inProgress) == code \in inProgress

\* a removal placed at the end of the try body instead of in a finally clause
ReleaseKey_notOnException(code, inProgress, how) ==
    IF how = "exception" THEN inProgress ELSE inProgress \ {code}

\* api.py:141-144  the finally clause: runs after every outcome of the try
ReleaseKey(code, inProgress, how) == inProgress \ {code}

\* the test placed inside the try block, its return passing the finally
AfterReject_throughFinally == "finally"

\* api.py:105-108  the `return` of a rejected invocation stands before the
\* try statement of line 112: the function is left at once
AfterReject == "idle"

\* one with block around the test, the insert and the analysis
LockAfterInsert_heldThroughTry(t) == t

\* api.py:105-112  the with block of the test-and-insert ends with line
\* 110: the lock is free again before the try statement
LockAfterInsert(t) == NoThread

\* the worker is between the insert (line 110) and the removal (line 144)
Holding(t) == pc[t] \in {"try", "finally", "remove"}

\* ------------------------------------------------------------------------
\* Data of the monitor
\* ------------------------------------------------------------------------
\* the calendar days the clock reaches
Days == 0..(MaxTime \div TicksPerDay)

\* an Optional[float] column holding NULL
None == -1

Prices == 0..MaxPrice

BoundVals == {None} \cup Prices

\* the bands (min, max) a recommendation is given in the monitor's runs:
\* no band, a band of one price, a band of two prices, a band without its
\* upper bound, a band whose lower bound is 0.0
Bands == {<<None, None>>, <<1, 1>>, <<1, 2>>, <<2, None>>, <<0, 2>>}

MSG_TYPE_BUY == 2

MSG_TYPE_TAKE_PROFIT == 3

MSG_TYPE_STOP_LOSS == 4

MsgTypes == {MSG_TYPE_BUY, MSG_TYPE_TAKE_PROFIT, MSG_TYPE_STOP_LOSS}

\* the keys of TheStock's push records: (message_type, calendar day)
Keys == MsgTypes \X Days

\* datetime.now().date(), and the time of day in slots: slot 1 of a day is
\* 09:00-15:00, slot 0 the hours before it, the later slots the hours after
Day(t) == t \div TicksPerDay

Slot(t) == t % TicksPerDay

\* the window never closes
IsTradingTime_always(t) == TRUE

\* price_monitor.py:42-49
IsTradingTime(t) == Slot(t) = 1

\* no run_once since the clock moved; `failed` tells that the quote or the
\* evaluation of TheStock's recommendation failed in that run, `unpaced`
\* that its quote was asked for and no time.sleep has followed yet
NoRun ==
    [kind |-> "none", logged |-> FALSE, failed |-> FALSE, unpaced |-> FALSE]

\* no _trigger_push yet: the message types whose push for the current
\* recommendation was skipped at line 98, saved a record, or failed to save
\* one, and whether the save of its take-profit record failed earlier today
NoPush ==
    [skipped |-> {}, saved |-> {}, unsaved |-> {}, tp_failed_today |-> FALSE]

\* Python truth value of an Optional[float]: None and 0.0 are false
Truthy(x) == x # None /\ x # 0

\* price_monitor.py:60-61
BuyTriggers(lo, hi, price) ==
    Truthy(lo) /\ Truthy(hi) /\ lo <= price /\ price <= hi

\* price_monitor.py:70-72
TakeProfitTriggers(lo, hi, price) ==
    Truthy(lo) /\ Truthy(hi) /\ price >= lo

\* price_monitor.py:81-83
StopLossTriggers(lo, hi, price) ==
    Truthy(lo) /\ Truthy(hi) /\ price <= hi

\* the recommendations and prices _check_price_condition is applied to
Recs ==
    [buy_price_min : BoundVals, buy_price_max : BoundVals,
     take_profit_price_min : BoundVals, take_profit_price_max : BoundVals,
     stop_loss_price_min : BoundVals, stop_loss_price_max : BoundVals]

\* price_monitor.py:51-89  the message types _trigger_push is called with
check_price_condition(rec, current_price) ==
    {ty \in {MSG_TYPE_BUY} :
        BuyTriggers(rec.buy_price_min, rec.buy_price_max, current_price)}
    \cup {ty \in {MSG_TYPE_TAKE_PROFIT} :
        TakeProfitTriggers(rec.take_profit_price_min,
                           rec.take_profit_price_max, current_price)}
    \cup {ty \in {MSG_TYPE_STOP_LOSS} :
        StopLossTriggers(rec.stop_loss_price_min, rec.stop_loss_price_max,
                         current_price)}

IdleRec ==
    [buy_price_min |-> None, buy_price_max |-> None,
     take_profit_price_min |-> None, take_profit_price_max |-> None,
     stop_loss_price_min |-> None, stop_loss_price_max |-> None]

\* storage: has_pushed_today(stock_code, message_type) - a PushRecord of
\* that code and type created today exists
HasPushedToday(records, msgType, today) == records[<<msgType, today>>] > 0

\* storage: save_push_record(record) - inserts a row, created_at = now
SavePushRecord(records, msgType, today) ==
    [records EXCEPT ![<<msgType, today>>] = @ + 1]

\* a lookup that asks for the buy type whatever the condition
DedupLookup_buyType(records, msgType, today) ==
    HasPushedToday(records, MSG_TYPE_BUY, today)

\* price_monitor.py:96  self.db.has_pushed_today(rec.stock_code, msg_type)
DedupLookup(records, msgType, today) ==
    HasPushedToday(records, msgType, today)

\* a push that ignores the lookup
SkipPush_never(pushed) == FALSE

\* price_monitor.py:96-98  `if has_pushed_today(...): return`
SkipPush(pushed) == pushed

\* a save wrapped in a try of its own, the notification following anyway
ReachesNotify_always(saveOk) == TRUE

\* price_monitor.py:126-137  save and notification share one try block: the
\* notification is reached only when save_push_record did not raise
ReachesNotify(saveOk) == saveOk

\* ------------------------------------------------------------------------
\* scanner_cn.py: the strength rule of is_strong_stock (lines 632-774)
\* ------------------------------------------------------------------------
\* pd.isna(latest[field]): the value is missing from the latest row
NaN == -100

\* scanner_cn.py:642  1_000_000_000_000 yuan, counted in units of 5*10^11
CAP_CEILING == 2

\* scanner_cn.py:652  the least 52-week range, in percent
MIN_RANGE_PCT == 250

\* scanner_cn.py:659  the least number of rows of history
MIN_ROWS == 25

\* scanner_cn.py:709  0.15, counted in percent
RS_THRESHOLD_PCT == 15

\* values of the latest row: moving averages and close, MACD line and
\* signal, volume and its average, 20-day return in percent
MAVals == 1..MaxMA

MacdVals == {0, 1}

DeaVals == {-1, 0, 1}

VolVals == {NaN, 1, 2}

VolMA5Vals == {2}

RsVals == {NaN, RS_THRESHOLD_PCT, RS_THRESHOLD_PCT + 1}

\* what get_stock_info_cn and the length of the history can be: one that
\* sits on every limit, and one beyond each limit in turn
Profiles ==
    {[market_cap |-> CAP_CEILING, low |-> 2, high |-> 7, rows |-> MIN_ROWS],
     [market_cap |-> None, low |-> 2, high |-> 7, rows |-> MIN_ROWS],
     [market_cap |-> CAP_CEILING + 1, low |-> 2, high |-> 7, rows |-> MIN_ROWS],
     [market_cap |-> CAP_CEILING, low |-> 0, high |-> 0, rows |-> MIN_ROWS],
     [market_cap |-> CAP_CEILING, low |-> 2, high |-> 6, rows |-> MIN_ROWS],
     [market_cap |-> CAP_CEILING, low |-> 2, high |-> 7, rows |-> MIN_ROWS - 1]}

Inputs ==
    {[market_cap |-> p.market_cap, low |-> p.low, high |-> p.high,
      rows |-> p.rows, ma5 |-> a, ma10 |-> b, ma20 |-> c, close |-> d,
      macd |-> m, dea |-> s, vol |-> v, volma5 |-> w, rs20 |-> r] :
        p \in Profiles, a \in MAVals, b \in MAVals, c \in MAVals,
        d \in MAVals, m \in MacdVals, s \in DeaVals, v \in VolVals,
        w \in VolMA5Vals, r \in RsVals}

FieldVals ==
    [ma5 |-> MAVals, ma10 |-> MAVals, ma20 |-> MAVals, close |-> MAVals,
     macd |-> MacdVals, dea |-> DeaVals, vol |-> VolVals,
     volma5 |-> VolMA5Vals, rs20 |-> RsVals]

\* the ceiling written in units of 10^8 yuan, the unit of the log line
CapFiltered_wrongUnit(x) ==
    Truthy(x.market_cap) /\ x.market_cap > CAP_CEILING * 10000

\* scanner_cn.py:641-645  `if market_cap: if market_cap > 1_000_000_000_000`
CapFiltered(x) == Truthy(x.market_cap) /\ x.market_cap > CAP_CEILING

\* scanner_cn.py:649-654  ((high - low) / low) * 100 < 250, both positive
RangeFiltered(x) ==
    /\ x.low > 0
    /\ x.high > 0
    /\ (x.high - x.low) * 100 < MIN_RANGE_PCT * x.low

\* scanner_cn.py:659  `len(df) < 25`
TooShort(x) == x.rows < MIN_ROWS

\* scanner_cn.py:681
required_fields == {"ma5", "ma10", "ma20", "close", "macd", "dea", "vol", "volma5"}

\* scanner_cn.py:682-684
Incomplete(x) == \E f \in required_fields : x[f] = NaN

\* scanner_cn.py:697-709  five entries, and a sixth only when RS_20d is
\* not missing
conditions(x) ==
    << x.ma5 > x.ma10,
       x.ma10 > x.ma20,
       x.close > x.ma5,
       x.macd > x.dea /\ x.macd > 0,
       2 * x.vol > x.volma5 >>
    \o (IF x.rs20 # NaN THEN << x.rs20 > RS_THRESHOLD_PCT >> ELSE << >>)

\* scanner_cn.py:712
met_conditions(c) == Cardinality({i \in DOMAIN c : c[i]})

\* scanner_cn.py:713
total_conditions(c) == Len(c)

\* every entry of the dictionary true, however many entries it has
AllConditionsMet_anyTotal(c) == met_conditions(c) = total_conditions(c)

\* scanner_cn.py:716  `met_conditions == total_conditions and
\* total_conditions == 6`
AllConditionsMet(c) ==
    met_conditions(c) = total_conditions(c) /\ total_conditions(c) = 6

\* scanner_cn.py:641-684  the four `return None` ahead of the conditions
ReturnsEarly(x) ==
    CapFiltered(x) \/ RangeFiltered(x) \/ TooShort(x) \/ Incomplete(x)

\* scanner_cn.py:632-774  the classification, on a cache miss
ComputeStrength(x) ==
    IF ReturnsEarly(x)
    THEN "Weak"
    ELSE IF AllConditionsMet(conditions(x)) THEN "Strong" ELSE "Weak"

\* scanner_cn.py:632-716  what a call on a cache miss goes through, in
\* order: get_stock_info_cn (632-638), fetch_stock_history_cn (657), the
\* indicator columns (662-675), the six conditions (697-716)
StepsOf(x) ==
    IF CapFiltered(x) \/ RangeFiltered(x) THEN <<"info">>
    ELSE IF TooShort(x) THEN <<"info", "history">>
    ELSE IF Incomplete(x) THEN <<"info", "history", "indicators">>
    ELSE <<"info", "history", "indicators", "conditions">>

IdleInput ==
    [market_cap |-> None, low |-> 0, high |-> 0, rows |-> 0, ma5 |-> 1,
     ma10 |-> 1, ma20 |-> 1, close |-> 1, macd |-> 0, dea |-> 0, vol |-> NaN,
     volma5 |-> 2, rs20 |-> NaN]

\* ------------------------------------------------------------------------
\* scanner_cn.py: data cache, scan pass and the strong_stocks table
\* ------------------------------------------------------------------------
MaxPasses == 2

MaxReadings == 1

MaxAttempts == 3

MaxLive == 3

MaxTasks == 2

MaxRuns == 2

MaxText == 3

MaxValue == 2

\* get_all_stock_codes: the (code, name) pairs of a pass, in order
Universe == <<1, 2>>

Symbols == {Universe[i] : i \in DOMAIN Universe}

\* cached_result.get('日期', ''): the dictionary has no date
NoDate == -1

\* scanner_cn.py:457  timedelta(days=1), in ticks of the clock
CACHE_TTL == TicksPerDay

\* no dictionary: None
NoDict == [code |-> 0, kind |-> "none", date |-> NoDate, rs |-> NaN,
           dea |-> NaN]

\* scanner_cn.py:738-759  the result of a Strong symbol; it has no '日期'
PositiveResult(symbol, x) ==
    [code |-> symbol, kind |-> "positive", date |-> NoDate, rs |-> x.rs20,
     dea |-> x.dea]

\* scanner_cn.py:766-772  the marker of a Weak symbol; it has '日期' and
\* neither '收盘价' nor '20天涨幅'
NegativeResult(symbol, today) ==
    [code |-> symbol, kind |-> "negative", date |-> today, rs |-> NaN,
     dea |-> NaN]

\* `if res:` / `if cached_result:` on a dictionary or None
TruthyDict(d) == d.kind # "none"

\* no cache file
NoFile == [cache_time |-> 0, stock_data |-> NoDict]

\* scanner_cn.py:449-461
load_cached_stock_data(file, t) ==
    IF TruthyDict(file.stock_data) /\ t - file.cache_time < CACHE_TTL
    THEN file.stock_data
    ELSE NoDict

\* scanner_cn.py:464-478
save_stock_data_to_cache(c, symbol, stock_data, t) ==
    [c EXCEPT ![symbol] = [cache_time |-> t, stock_data |-> stock_data]]

\* the date of the entry not compared
DateMatches_always(cache_date, today) == TRUE

\* scanner_cn.py:626-628  `cache_date == today`
DateMatches(cache_date, today) == cache_date = today

\* what the two fetches return for a symbol: a Strong input, the same with
\* another signal line and return, a Weak one and one above the cap ceiling
StrongA ==
    [market_cap |-> CAP_CEILING, low |-> 2, high |-> 7, rows |-> MIN_ROWS,
     ma5 |-> 3, ma10 |-> 2, ma20 |-> 1, close |-> 4, macd |-> 1, dea |-> 0,
     vol |-> 2, volma5 |-> 2, rs20 |-> RS_THRESHOLD_PCT + 2]

StrongB == [StrongA EXCEPT !.dea = -1, !.rs20 = RS_THRESHOLD_PCT + 1]

WeakC == [StrongA EXCEPT !.vol = 1]

FilteredD == [StrongA EXCEPT !.market_cap = CAP_CEILING + 1]

\* the fetched input of a call, and whether the computation raises: not at
\* all, with a delisting keyword in the message, or with another message
ComputeCases ==
    {[x |-> StrongA, raises |-> "none"], [x |-> StrongB, raises |-> "none"],
     [x |-> WeakC, raises |-> "none"], [x |-> FilteredD, raises |-> "none"],
     [x |-> StrongA, raises |-> "keyword"], [x |-> StrongA, raises |-> "other"]}

\* the ways an external call of a symbol fails with a delisting keyword in
\* the message of its error: the static-info call, the history call with
\* 'delisted' or '退市', the history call with 'no data' or 'not found'
ExternalFailures == {"info_keyword", "hist_delisted", "hist_notfound"}

\* the calls with such a failure, on an input that would be Strong
FailingCalls == {[x |-> StrongA, raises |-> f] : f \in ExternalFailures}

\* scanner_cn.py:554-581  the static-info call stands in a bare
\* `except: pass`: after its error the market cap stays None
get_stock_info_cn(case) ==
    IF case.raises = "info_keyword"
    THEN [case.x EXCEPT !.market_cap = None]
    ELSE case.x

\* scanner_cn.py:532-536  fetch_stock_history_cn catches the error of the
\* history call and saves the symbol only for 'delisted' and '退市'
HistorySavesDelisted(raises) == raises = "hist_delisted"

\* scanner_cn.py:615-781  what a call returns and leaves behind; `fetched`
\* tells whether get_stock_info_cn was called, `hit` whether the cache
\* answered, `ext_failed` which external call was made and failed with a
\* delisting keyword
is_strong_stock(symbol, case, c, delisted_stocks, file, t) ==
    LET cached_result == load_cached_stock_data(c[symbol], t)
        x == get_stock_info_cn(case)
        keep == [res |-> NoDict, cache |-> c, delisted |-> file,
                 hit |-> FALSE, fetched |-> TRUE,
                 ext_failed |-> IF case.raises = "info_keyword"
                                THEN case.raises ELSE "none"]
    IN  IF symbol \in delisted_stocks
        THEN [keep EXCEPT !.fetched = FALSE, !.ext_failed = "none"]
        ELSE IF TruthyDict(cached_result)
                /\ DateMatches(cached_result.date, Day(t))
        THEN [keep EXCEPT !.res = cached_result, !.hit = TRUE,
                          !.fetched = FALSE, !.ext_failed = "none"]
        ELSE IF case.raises = "keyword"
        THEN [keep EXCEPT !.delisted = file \cup {symbol}]
        ELSE IF case.raises = "other" \/ CapFiltered(x) \/ RangeFiltered(x)
        THEN keep
        ELSE IF case.raises \in {"hist_delisted", "hist_notfound"}
        THEN [keep EXCEPT
                 !.delisted = IF HistorySavesDelisted(case.raises)
                              THEN file \cup {symbol} ELSE file,
                 !.ext_failed = case.raises]
        ELSE IF ReturnsEarly(x)
        THEN keep
        ELSE IF AllConditionsMet(conditions(x))
        THEN [keep EXCEPT
                 !.res = PositiveResult(symbol, x),
                 !.cache = save_stock_data_to_cache(
                               c, symbol, PositiveResult(symbol, x), t)]
        ELSE [keep EXCEPT
                 !.cache = save_stock_data_to_cache(
                               c, symbol, NegativeResult(symbol, Day(t)), t)]

\* scanner_cn.py:108-130  stock_info['收盘价'] raises KeyError on a marker
LogRaises(res) == res.kind # "positive"

\* scanner_cn.py:776-781  the fetch or the scoring of the call raised, and
\* is_strong_stock caught it and answered None
Raised(r, case) ==
    r.fetched /\ (case.raises \in {"keyword", "other"} \/ r.ext_failed # "none")

AfterSymbol_aborts(raised) == IF raised THEN "idle" ELSE "loop"

\* scanner_cn.py:877-894  where scan_market is after a turn of the loop: an
\* exception of the turn is caught at 890 and the loop goes on
AfterSymbol(raised) == "loop"

\* scanner_cn.py:883-884  x.get('20天涨幅', 0)
sort_key(d) == IF d.rs = NaN THEN 0 ELSE d.rs

InsertSorted_atEnd(s, d) == Append(s, d)

\* list.sort is stable: an element goes behind those whose key is not larger
InsertSorted(s, d) ==
    LET k == Cardinality({i \in DOMAIN s : sort_key(s[i]) <= sort_key(d)})
    IN  SubSeq(s, 1, k) \o <<d>> \o SubSeq(s, k + 1, Len(s))

RECURSIVE SortResults(_)
\* scanner_cn.py:886, 914  results.sort(key=sort_key)
SortResults(s) ==
    IF Len(s) <= 1
    THEN s
    ELSE InsertSorted(SortResults(SubSeq(s, 1, Len(s) - 1)), s[Len(s)])

load_delisted_stocks_empty(file) == {}

\* scanner_cn.py:416-429  the symbols of the delisted file
load_delisted_stocks(file) == file

\* scanner_cn.py:852-857  codes without the delisted symbols
CodesOf(delisted_stocks) ==
    SelectSeq(Universe, LAMBDA sym : sym \notin delisted_stocks)

\* a key of the unique constraint uix_strong_stock_scan_time_code
KeyOf(row) == <<row.scan_time, row.stock_code>>

\* scanner_cn.py:802-825  the StrongStock objects of a frame, all with the
\* clock reading scan_time and the ids the table hands out next
PendingRows(store, df, scan_time) ==
    {[id |-> Cardinality(store) + i, scan_time |-> scan_time,
      stock_code |-> df[i].code, kind |-> df[i].kind, dea |-> df[i].dea] :
        i \in DOMAIN df}

\* the unique constraint rejects the flush
IntegrityError(store, pending) ==
    \E r \in pending, q \in store \cup pending :
        r.id # q.id /\ KeyOf(r) = KeyOf(q)

\* how the store answers a call: it works, it fails while the rows are
\* upserted, or it cannot be opened at all
DbAnswers == {"ok", "fails", "unavailable"}

\* scanner_cn.py:796-800  get_db, create_all and get_session stand before
\* the try: their exception leaves save_strong_stocks_to_db
SaveRaises(df, db) == df # << >> /\ db = "unavailable"

\* scanner_cn.py:802-827  an exception inside the try. A frame of markers
\* only has no '收盘价' column: row['收盘价'] raises.
UpsertFails(store, df, scan_time, db) ==
    \/ db = "fails"
    \/ \A i \in DOMAIN df : df[i].kind # "positive"
    \/ IntegrityError(store, PendingRows(store, df, scan_time))

\* scanner_cn.py:802-826  the table as the session sees it when the
\* exception comes: session.merge of an object without id adds it
Merged(store, df, scan_time) ==
    IF \A i \in DOMAIN df : df[i].kind # "positive"
    THEN store
    ELSE store \cup PendingRows(store, df, scan_time)

Rollback_keepsMerged(store, session) == session

\* scanner_cn.py:829-831  session.rollback()
Rollback(store, session) == store

\* scanner_cn.py:790-831  the table after a call; an exception anywhere in
\* the try rolls the transaction back.
SaveStrongStocksToDb(store, df, scan_time, db) ==
    IF df = << >> \/ SaveRaises(df, db)
    THEN store
    ELSE IF UpsertFails(store, df, scan_time, db)
    THEN Rollback(store, Merged(store, df, scan_time))
    ELSE store \cup PendingRows(store, df, scan_time)

\* history: the writes of a call that met a working store
Attempted(log, df, scan_time, db) ==
    IF db = "ok"
    THEN log \o [i \in DOMAIN df |->
                    [key |-> <<scan_time, df[i].code>>, dea |-> df[i].dea]]
    ELSE log

\* the frames handed to save_strong_stocks_to_db: one or two Strong results
\* of different symbols
DfInputs ==
    {<<PositiveResult(a, x)>> : a \in Symbols, x \in {StrongA, StrongB}}
    \cup {<<PositiveResult(p[1], x), PositiveResult(p[2], y)>> :
            p \in {q \in Symbols \X Symbols : q[1] # q[2]},
            x \in {StrongA, StrongB}, y \in {StrongA, StrongB}}

\* a pass that has not handled a symbol yet
NoTrace ==
    [failed |-> 0, summary |-> FALSE, steps |-> << >>, returned |-> FALSE]

\* scanner_cn.py:926-932  what the end of a pass does with its frame, in
\* order: the export, then save_strong_stocks_to_db
EndSteps(store, df, scan_time, excel, db) ==
    IF df = << >>
    THEN << >>
    ELSE IF excel # "ok"
    THEN <<"export_failed">>
    ELSE <<"export">> \o
         (IF SaveRaises(df, db)
          THEN <<"save_raised">>
          ELSE IF UpsertFails(store, df, scan_time, db)
          THEN <<"rollback">>
          ELSE <<"save">>)

\* no call of is_strong_stock yet
NoLookup == [symbol |-> 0, today |-> 0, written |-> NoDate, kind |-> "none",
             age |-> 0, hit |-> FALSE, fetched |-> FALSE,
             ext_failed |-> "none"]

GuardIdle ==
    /\ ANALYSIS_IN_PROGRESS = {}
    /\ ANALYSIS_LOCK = NoThread
    /\ pc = [t \in Threads |-> "idle"]
    /\ stock_code = [t \in Threads |-> NoCode]
    /\ outcome = [t \in Threads |-> "none"]

MonitorIdle ==
    /\ push_records = [k \in Keys |-> 0]
    /\ send_calls = [k \in Keys |-> 0]
    /\ mpc = "idle"
    /\ m_left = 0
    /\ m_done = FALSE
    /\ m_price = None
    /\ tp_today = [seen |-> 0, clean |-> TRUE]
    /\ m_last = NoRun
    /\ m_push = NoPush

IndicatorIdle ==
    /\ ind_in = IdleInput
    /\ ind_out = "pending"
    /\ ind_steps = << >>
    /\ ind_flipped = 0

ScanIdle ==
    /\ cache = [sym \in Symbols |-> NoFile]
    /\ delisted = {}
    /\ spc = "idle"
    /\ s_delisted = {}
    /\ s_idx = 0
    /\ results = << >>
    /\ skipped = << >>
    /\ passes = 0
    /\ reading = 0
    /\ strong_stocks = {}
    /\ lookup = NoLookup
    /\ attempts = << >>
    /\ s_trace = NoTrace

\* api.py:241/251  background_tasks.add_task(..., code): a worker starts
Invoke(t, code) ==
    /\ pc[t] = "idle"
    /\ pc' = [pc EXCEPT ![t] = "lock"]
    /\ stock_code' = [stock_code EXCEPT ![t] = code]
    /\ outcome' = [outcome EXCEPT ![t] = "none"]
    /\ UNCHANGED <<ANALYSIS_IN_PROGRESS, ANALYSIS_LOCK>>
    /\ UNCHANGED notGuard

\* api.py:105  `with ANALYSIS_LOCK:` entered
AcquireForTest(t) ==
    /\ pc[t] = "lock"
    /\ ANALYSIS_LOCK = NoThread
    /\ ANALYSIS_LOCK' = t
    /\ pc' = [pc EXCEPT ![t] = "test"]
    /\ UNCHANGED <<ANALYSIS_IN_PROGRESS, stock_code, outcome>>
    /\ UNCHANGED notGuard

\* api.py:106-108  key present: warn, return (the with block releases)
Reject(t) ==
    /\ pc[t] = "test"
    /\ AlreadyInProgress(stock_code[t], ANALYSIS_IN_PROGRESS)
    /\ ANALYSIS_LOCK' = NoThread
    /\ pc' = [pc EXCEPT ![t] = AfterReject]
    /\ outcome' = [outcome EXCEPT ![t] = "rejected"]
    /\ UNCHANGED <<ANALYSIS_IN_PROGRESS, stock_code>>
    /\ UNCHANGED notGuard

\* api.py:110  key absent: insert it, leave the with block
Insert(t) ==
    /\ pc[t] = "test"
    /\ ~AlreadyInProgress(stock_code[t], ANALYSIS_IN_PROGRESS)
    /\ ANALYSIS_IN_PROGRESS' = ANALYSIS_IN_PROGRESS \cup {stock_code[t]}
    /\ ANALYSIS_LOCK' = LockAfterInsert(t)
    /\ pc' = [pc EXCEPT ![t] = "try"]
    /\ UNCHANGED <<stock_code, outcome>>
    /\ UNCHANGED notGuard

\* api.py:112-140  the analysis: success, failed result, or exception
Analyse(t, how) ==
    /\ pc[t] = "try"
    /\ pc' = [pc EXCEPT ![t] = "finally"]
    /\ outcome' = [outcome EXCEPT ![t] = how]
    /\ UNCHANGED <<ANALYSIS_IN_PROGRESS, ANALYSIS_LOCK, stock_code>>
    /\ UNCHANGED notGuard

\* api.py:143  `with ANALYSIS_LOCK:` of the finally clause entered
AcquireForRemove(t) ==
    /\ pc[t] = "finally"
    /\ ANALYSIS_LOCK = NoThread
    /\ ANALYSIS_LOCK' = t
    /\ pc' = [pc EXCEPT ![t] = "remove"]
    /\ UNCHANGED <<ANALYSIS_IN_PROGRESS, stock_code, outcome>>
    /\ UNCHANGED notGuard

\* api.py:144  ANALYSIS_IN_PROGRESS.remove(stock_code); set.remove raises
\* KeyError on a missing key
Remove(t) ==
    /\ pc[t] = "remove"
    /\ ANALYSIS_IN_PROGRESS' =
           ReleaseKey(stock_code[t], ANALYSIS_IN_PROGRESS, outcome[t])
    /\ ANALYSIS_LOCK' = NoThread
    /\ pc' = [pc EXCEPT ![t] = "idle"]
    /\ outcome' = [outcome EXCEPT ![t] =
           IF stock_code[t] \in ANALYSIS_IN_PROGRESS THEN @ ELSE "KeyError"]
    /\ UNCHANGED stock_code
    /\ UNCHANGED notGuard

ConditionIdle ==
    /\ chk_in = [rec |-> IdleRec, price |-> 0]
    /\ chk_out = [done |-> FALSE, pushed |-> {}]

\* ------------------------------------------------------------------------
\* scanner_cn.py: the universe of a pass and the pacing of its loop
\* ------------------------------------------------------------------------
\* the instruments a live answer can name: two share codes and the code of
\* a convertible bond, under a name, another name, or the name of a fund
LiveCodes == {1, 2, 3}

LiveNames == {"plain", "renamed", "ETF"}

Tickers == [code : LiveCodes, name : LiveNames]

\* scanner_cn.py:240-296  the embedded list has 128 entries, all shares
\* with a code of their own
SEED_SIZE == 128

get_builtin_cn_stocks ==
    [i \in 1..SEED_SIZE |-> [code |-> 100 + i, name |-> "plain"]]

\* scanner_cn.py:33
BATCH_SIZE == 100

RECURSIVE Dedup(_)
\* scanner_cn.py:229  list(dict.fromkeys(all_stocks)): the first of equal
\* (code, name) tuples stays, in order
Dedup(s) ==
    IF s = << >>
    THEN << >>
    ELSE LET front == Dedup(SubSeq(s, 1, Len(s) - 1))
             last == s[Len(s)]
         IN  IF \E i \in DOMAIN front : front[i] = last
             THEN front
             ELSE Append(front, last)

fetch_all_cn_stocks_noSeed(all_stocks) == Dedup(all_stocks)

\* scanner_cn.py:151-237  all_stocks is what the batches of the live source
\* gave; a batch that fails gives nothing (bare except, line 193)
fetch_all_cn_stocks(all_stocks) ==
    IF all_stocks # << >>
    THEN Dedup(all_stocks)
    ELSE get_builtin_cn_stocks

\* scanner_cn.py:319-345  a fund keyword in the name, or the code of a B
\* share or of a convertible bond
is_actual_cn_stock(t) == t.name # "ETF" /\ t.code # 3

\* scanner_cn.py:376-413  USE_TICKER_CACHE is False and MARKET_FILTER is
\* 'all' (line 102)
get_all_stock_codes(all_stocks) ==
    SelectSeq(fetch_all_cn_stocks(all_stocks), is_actual_cn_stock)

\* how a turn of the loop ends: is_strong_stock scored the symbol, an
\* exception was caught at line 890, or the cache answered
Outcomes == {"scored", "failed", "cached"}

\* scanner_cn.py:894  the delay stands behind the try statement
SleepsAfter(ending) == TRUE

PausesAfter_unlessFailed(idx, ending) ==
    idx % BATCH_SIZE = 0 /\ ending # "failed"

\* scanner_cn.py:896-905
PausesAfter(idx, ending) == idx % BATCH_SIZE = 0

NoPace ==
    [pc |-> "idle", idx |-> 0, outcome |-> "none", delays |-> 0, pauses |-> 0]

UniverseIdle ==
    /\ universe = [live |-> << >>, codes |-> << >>]
    /\ pace = NoPace

\* ------------------------------------------------------------------------
\* scheduler.py: the configured tasks and their triggers
\* ------------------------------------------------------------------------
\* scheduler.py:24-29  the task types of TASK_REGISTRY that take no
\* parameters
TASK_REGISTRY == {"scan_market", "price_monitor"}

\* a `type` of a task: two of the registry, one that is not, none
TaskTypes == TASK_REGISTRY \cup {"nonsense", ""}

\* a `time` of a task: none, one `schedule` takes, one it rejects
TaskTimes == {"", "09:30", "25:99"}

TimeValid(t) == t = "09:30"

Weekdays ==
    {"monday", "tuesday", "wednesday", "thursday", "friday", "saturday",
     "sunday"}

\* scheduler.py:127  day.strip().lower()
Normalise(day) == IF day = " Tuesday" THEN "tuesday" ELSE day

\* `day_of_week` after split(','); the empty list stands for a missing or
\* empty value
DayLists ==
    {<< >>, <<"monday">>, <<"monday", " Tuesday">>, <<"funday", "monday">>,
     <<"monday", "monday">>}

TaskConfigs == [type : TaskTypes, time : TaskTimes, day_of_week : DayLists]

\* scheduler.py:121-122  job_func = partial(_run_task, task_name=task_type,
\* task_config=task), registered under the tag of the task's index
Trigger(task, task_idx, every) ==
    [task_name |-> task.type, task_config |-> task, every |-> every,
     at |-> task.time, tag |-> task_idx]

TriggersFor_firstDayOnly(task, task_idx) ==
    IF task.type \notin TASK_REGISTRY \/ ~TimeValid(task.time)
    THEN << >>
    ELSE IF task.day_of_week = << >>
    THEN <<Trigger(task, task_idx, "day")>>
    ELSE <<Trigger(task, task_idx, Normalise(task.day_of_week[1]))>>

\* scheduler.py:111-144  the triggers one task is registered with: none for
\* a task without type or time or of an unknown type, none when
\* `at(task_time)` raises, one a day without days of the week, else one
\* for every day of the list that is the name of a weekday
TriggersFor(task, task_idx) ==
    IF task.type = "" \/ task.time = ""
    THEN << >>
    ELSE IF task.type \notin TASK_REGISTRY
    THEN << >>
    ELSE IF task.day_of_week # << >>
    THEN LET days == SelectSeq(task.day_of_week,
                               LAMBDA day : Normalise(day) \in Weekdays)
         IN  IF ~TimeValid(task.time)
             THEN << >>
             ELSE [i \in DOMAIN days |->
                      Trigger(task, task_idx, Normalise(days[i]))]
    ELSE IF TimeValid(task.time)
    THEN <<Trigger(task, task_idx, "day")>>
    ELSE << >>

RECURSIVE setup_scheduler(_)
\* scheduler.py:87-145  the triggers of the tasks, in the order of the list
setup_scheduler(ts) ==
    IF ts = << >>
    THEN << >>
    ELSE setup_scheduler(SubSeq(ts, 1, Len(ts) - 1))
         \o TriggersFor(ts[Len(ts)], Len(ts) - 1)

\* how a run of _run_task ends: the job returns, the job raises an
\* Exception, the import of its module raises ImportError or
\* AttributeError, or the import raises something else
RunOutcomes == {"ok", "raises", "unloadable", "import_raises"}

\* scheduler.py:45-85  the exceptions that leave _run_task: the import is
\* guarded for ImportError and AttributeError only (lines 45-51), the job
\* itself for every Exception (lines 53-85)
RunTaskEscapes(out) == out = "import_raises"

RunsInline_spawns == FALSE

\* scheduler.py:165-170  schedule.run_pending() calls the job function on
\* the thread of the loop and comes back when the job is over
RunsInline == TRUE

NoSched ==
    [set_up |-> FALSE, jobs |-> << >>, alive |-> FALSE, due |-> {},
     running |-> {}, runs |-> << >>, failed |-> {}]

SchedulerIdle ==
    /\ tasks = << >>
    /\ sched = NoSched

\* ------------------------------------------------------------------------
\* webui.py: _normalize_stock_list, _set_stock_list
\* ------------------------------------------------------------------------
\* The characters of a text: "a" is a character of no special meaning,
\* "k" stands for the characters `STOCK_LIST=` and "v" for a stock code,
\* "," is the comma, "n" the newline and "f" a boundary of str.splitlines
\* other than the newline (form feed, U+2028, ...), which
\* open(path, "r") leaves in the text. Blanks are not modelled.
TextChars == {"a", "k", "n", "f"}

RECURSIVE TextsOf(_, _)
TextsOf(chars, n) ==
    IF n = 0 THEN {<< >>}
    ELSE LET shorter == TextsOf(chars, n - 1)
         IN  shorter \cup {Append(t, c) : t \in shorter, c \in chars}

\* the posted values: codes separated by commas or newlines
ValueChars == {"v", ",", "n"}

\* webui.py:50-52  _STOCK_LIST_RE matches a line that begins with the key
STOCK_LIST_RE(line) == line # << >> /\ line[1] = "k"

\* str.split on the characters of seps: the pieces between them, the
\* empty ones included
RECURSIVE Split(_, _)
Split(text, seps) ==
    IF text = << >> THEN << << >> >>
    ELSE LET rest == Split(Tail(text), seps)
         IN  IF Head(text) \in seps
             THEN << << >> >> \o rest
             ELSE << <<Head(text)>> \o rest[1] >> \o Tail(rest)

\* splitting on the newline alone
splitlines_newlineOnly(text) ==
    LET pieces == Split(text, {"n"})
    IN  IF pieces[Len(pieces)] = << >>
        THEN SubSeq(pieces, 1, Len(pieces) - 1)
        ELSE pieces

\* webui.py:76  env_text.splitlines(keepends=False): every line boundary
\* splits, and a boundary at the end of the text opens no empty line
splitlines(text) ==
    LET pieces == Split(text, {"n", "f"})
    IN  IF pieces[Len(pieces)] = << >>
        THEN SubSeq(pieces, 1, Len(pieces) - 1)
        ELSE pieces

\* sep.join(items)
RECURSIVE Join(_, _)
Join(items, sep) ==
    IF items = << >> THEN << >>
    ELSE IF Len(items) = 1 THEN items[1]
    ELSE items[1] \o sep \o Join(Tail(items), sep)

\* webui.py:67-70  newlines become commas, empty parts are dropped
normalize_stock_list(value) ==
    Join(SelectSeq(Split(value, {",", "n"}), LAMBDA part : part # << >>),
         <<",">>)

\* webui.py:73-99
set_stock_list(text, value) ==
    LET new_value == normalize_stock_list(value)
        lines == splitlines(text)
        replaced == \E i \in DOMAIN lines : STOCK_LIST_RE(lines[i])
        edited == [i \in DOMAIN lines |->
                      IF STOCK_LIST_RE(lines[i])
                      THEN <<"k">> \o new_value ELSE lines[i]]
        out_lines ==
            IF replaced THEN edited
            ELSE (IF edited # << >> /\ edited[Len(edited)] # << >>
                  THEN Append(edited, << >>) ELSE edited)
                 \o << <<"k">> \o new_value >>
        trailing_newline ==
            IF text # << >> THEN text[Len(text)] = "n" ELSE TRUE
    IN  Join(out_lines, <<"n">>)
            \o (IF trailing_newline THEN <<"n">> ELSE << >>)

NoUpdate == [done |-> FALSE, before |-> << >>, value |-> << >>]

EnvIdle ==
    /\ env_text = << >>
    /\ env_last = NoUpdate

\* ------------------------------------------------------------------------
\* api.py: create_ai_recommendations, webui.py:
\* _handle_ai_recommendation_post
\* ------------------------------------------------------------------------
NoRec == [stored |-> FALSE, is_push_msg |-> FALSE]

\* api.py:58-71, webui.py:464-478  the item of a request, as far as the
\* flag goes: is_push_msg is a field the client may send, False when it
\* is left out
Items == [stock_code : Codes, is_push_msg : BOOLEAN]

\* api.py:180  AIStockRecommendation(**item.dict())
AIStockRecommendation(item) ==
    [stored |-> TRUE, is_push_msg |-> item.is_push_msg]

\* storage (outside the repository's sources), by the specification's
\* transactional upsert(entity): the row of the entity's stock code takes
\* the values of the entity
save_ai_recommendation(store, item) ==
    [store EXCEPT ![item.stock_code] = AIStockRecommendation(item)]

SaveAnswers == {"ok", "raises"}

SendAnswers == {"ok", "fails", "raises"}

\* api.py:184-190  the flag after the item was saved: sent only when the
\* saved row is not pushed yet, set only when the send answered success
MarkPushed(store, item, send) ==
    IF ~store[item.stock_code].is_push_msg /\ send = "ok"
    THEN [store EXCEPT ![item.stock_code].is_push_msg = TRUE]
    ELSE store

NoIngest ==
    [last |-> [kind |-> "none", stock_code |-> 0, sent |-> "none"],
     delivered |-> {}]

IngestIdle ==
    /\ ai_recs = [c \in Codes |-> NoRec]
    /\ ingest = NoIngest

InitGuard ==
    /\ GuardIdle /\ now = 0 /\ MonitorIdle /\ IndicatorIdle /\ ScanIdle
    /\ ConditionIdle /\ UniverseIdle /\ SchedulerIdle /\ IngestIdle /\ EnvIdle

NextGuard ==
    \/ \E t \in Threads, code \in Codes : Invoke(t, code)
    \/ \E t \in Threads : AcquireForTest(t)
    \/ \E t \in Threads : Reject(t)
    \/ \E t \in Threads : Insert(t)
    \/ \E t \in Threads, how \in AnalysisOutcomes : Analyse(t, how)
    \/ \E t \in Threads : AcquireForRemove(t)
    \/ \E t \in Threads : Remove(t)

SpecGuard == InitGuard /\ [][NextGuard]_vars

\* ------------------------------------------------------------------------
\* price_monitor.py: PriceMonitor._trigger_push
\* ------------------------------------------------------------------------
\* how the collaborators answer during one _trigger_push, as far as it
\* reaches them: the lookup raises; the save raises; the notifier is not
\* available (or is_available raises); the notifier is available and send
\* is called (returning True or False, or raising)
PushOutcomes == {"lookup_raises", "save_raises", "unavailable", "sent"}

SaveOk(out) == out \in {"unavailable", "sent"}

\* a _trigger_push without its try block: a failing save leaves it too
EscapesPush_saveToo(out) == out \in {"lookup_raises", "save_raises"}

\* price_monitor.py:96, 126-137  the lookup is outside the try block, the
\* save and the notifier are inside it and `except Exception` only logs
EscapesPush(out) == out = "lookup_raises"

\* price_monitor.py:91-137  the store and the send counts after one
\* _trigger_push, what it did, and whether an exception left it (only
\* line 96 is outside the try block)
TriggerPush(records, sends, msgType, today, out) ==
    IF out = "lookup_raises"
    THEN [records |-> records, sends |-> sends, did |-> out,
          raised |-> EscapesPush(out)]
    ELSE IF SkipPush(DedupLookup(records, msgType, today))
    THEN [records |-> records, sends |-> sends, did |-> "skipped",
          raised |-> FALSE]
    ELSE [records |-> IF SaveOk(out)
                      THEN SavePushRecord(records, msgType, today)
                      ELSE records,
          sends |-> IF ReachesNotify(SaveOk(out)) /\ out # "unavailable"
                    THEN [sends EXCEPT ![<<msgType, today>>] = @ + 1]
                    ELSE sends,
          did |-> out,
          raised |-> EscapesPush(out)]

\* ------------------------------------------------------------------------
\* price_monitor.py: PriceMonitor.run_once, one step per condition of
\* _check_price_condition
\* ------------------------------------------------------------------------
\* where the for loop of run_once goes once the current recommendation is
\* left, `left` counting the current one
AfterRec(left) == IF left > 1 THEN "fetch" ELSE "idle"

\* a try block around the whole loop: a failure ends the tick
AfterFailure_endsTick(left) == "idle"

\* price_monitor.py:170-186  the try block is inside the loop body: after
\* `continue` or the except clause the loop takes the next recommendation
AfterFailure(left) == AfterRec(left)

\* the current recommendation is left: by `continue` (174-175), by the
\* except clause (185-186) or at the end of the loop body (183)
LeaveRec ==
    /\ mpc' = AfterRec(m_left)
    /\ m_left' = m_left - 1
    /\ m_done' = (m_left > 1 /\ (m_done \/ mpc # "fetch"))
    /\ m_price' = None

\* what one _trigger_push adds to the history of the pushes
Pushed(h, msgType, did) ==
    [h EXCEPT !.skipped = IF did = "skipped" THEN @ \cup {msgType} ELSE @,
              !.saved = IF SaveOk(did) THEN @ \cup {msgType} ELSE @,
              !.unsaved = IF did = "save_raises" THEN @ \cup {msgType}
                          ELSE @]

\* TheStock's recommendation is left, or a run_once starts: the pushes
\* recorded so far become earlier ones
Earlier(h) ==
    [NoPush EXCEPT !.tp_failed_today =
                       h.tp_failed_today \/ MSG_TYPE_TAKE_PROFIT \in h.unsaved]

\* one condition of TheStock's recommendation has been evaluated and, if
\* it triggered, _trigger_push has run
Condition(triggers, msgType, out, next) ==
    LET r == TriggerPush(push_records, send_calls, msgType, Day(now), out)
    IN  /\ r.records[<<msgType, Day(now)>>] <= MaxRows
        /\ r.sends[<<msgType, Day(now)>>] <= MaxRows
        \* the answers of collaborators that are not reached do not matter
        /\ (~triggers \/ r.did = "skipped") => out = "sent"
        /\ IF triggers
             THEN /\ push_records' = r.records
                  /\ send_calls' = r.sends
                  /\ m_push' = Pushed(m_push, msgType, r.did)
                  /\ IF r.raised
                       THEN /\ mpc' = AfterFailure(m_left)
                            /\ m_left' = m_left - 1
                            /\ m_done' = (m_left > 1)
                            /\ m_price' = None
                            /\ m_last' = [m_last EXCEPT !.failed = TRUE]
                       ELSE /\ mpc' = next
                            /\ m_price' = IF next = "sleep" THEN None
                                          ELSE m_price
                            /\ UNCHANGED <<m_left, m_done, m_last>>
             ELSE /\ mpc' = next
                  /\ m_price' = IF next = "sleep" THEN None ELSE m_price
                  /\ UNCHANGED <<push_records, send_calls, m_left, m_done,
                                 m_last, m_push>>

\* the wall clock advances between two runs of the monitor
AdvanceClock ==
    /\ mpc = "idle"
    /\ now < MaxTime
    /\ now' = now + 1
    /\ tp_today' = IF Day(now + 1) # Day(now)
                   THEN [seen |-> 0, clean |-> TRUE] ELSE tp_today
    /\ m_last' = NoRun
    /\ m_push' = IF Day(now + 1) # Day(now) THEN NoPush ELSE m_push
    /\ UNCHANGED <<push_records, send_calls, mpc, m_left, m_done, m_price>>
    /\ UNCHANGED notMonitor

\* price_monitor.py:155-157  outside the trading window run_once returns;
\* the log call of line 156 is commented out
RunOnceClosed ==
    /\ mpc = "idle"
    /\ ~IsTradingTime(now)
    /\ m_last' = [NoRun EXCEPT !.kind = "closed"]
    /\ m_push' = Earlier(m_push)
    /\ UNCHANGED <<push_records, send_calls, mpc, m_left, m_done, m_price,
                   tp_today>>
    /\ UNCHANGED <<now, notMonitor>>

\* price_monitor.py:159-167  inside the window the recommendations are read;
\* n is the number of rows get_all_recommendations returns
RunOnce(n) ==
    /\ mpc = "idle"
    /\ IsTradingTime(now)
    /\ m_left' = n
    /\ mpc' = IF n = 0 THEN "idle" ELSE "fetch"
    /\ m_last' = [NoRun EXCEPT !.kind = "open", !.logged = TRUE]
    /\ m_push' = Earlier(m_push)
    /\ UNCHANGED <<push_records, send_calls, m_done, m_price, tp_today>>
    /\ UNCHANGED <<now, notMonitor>>

\* price_monitor.py:169-186  the next recommendation is one of another
\* instrument: whatever its quote and its pushes, TheStock's rows stay
OtherRec ==
    /\ mpc = "fetch"
    /\ LeaveRec
    /\ UNCHANGED <<push_records, send_calls, tp_today>>
    /\ UNCHANGED <<now, m_last, m_push, notMonitor>>

\* price_monitor.py:172-177  the next recommendation is TheStock's and its
\* quote arrives
FetchQuote(price) ==
    /\ mpc = "fetch"
    /\ ~m_done
    /\ m_done' = TRUE
    /\ m_price' = price
    /\ mpc' = "buy"
    /\ m_last' = [m_last EXCEPT !.unpaced = TRUE]
    /\ UNCHANGED <<push_records, send_calls, m_left, tp_today, m_push>>
    /\ UNCHANGED <<now, notMonitor>>

\* price_monitor.py:172-175, 185-186  the next recommendation is TheStock's
\* and get_realtime_quote returns nothing or raises: it is skipped
FetchQuoteFails ==
    /\ mpc = "fetch"
    /\ ~m_done
    /\ mpc' = AfterFailure(m_left)
    /\ m_left' = m_left - 1
    /\ m_done' = (m_left > 1)
    /\ m_last' = [m_last EXCEPT !.failed = TRUE, !.unpaced = TRUE]
    /\ UNCHANGED <<push_records, send_calls, m_price, tp_today, m_push>>
    /\ UNCHANGED <<now, notMonitor>>

\* price_monitor.py:59-67  the buy band of the recommendation is lo..hi
CheckBuy(lo, hi, out) ==
    /\ mpc = "buy"
    /\ Condition(BuyTriggers(lo, hi, m_price), MSG_TYPE_BUY, out,
                 "take_profit")
    /\ UNCHANGED tp_today
    /\ UNCHANGED <<now, notMonitor>>

\* price_monitor.py:69-78  the take-profit band is lo..hi
CheckTakeProfit(lo, hi, out) ==
    /\ mpc = "take_profit"
    /\ Condition(TakeProfitTriggers(lo, hi, m_price), MSG_TYPE_TAKE_PROFIT,
                 out, "stop_loss")
    /\ tp_today' =
           IF TakeProfitTriggers(lo, hi, m_price)
           THEN [seen |-> IF tp_today.seen < 2 THEN tp_today.seen + 1 ELSE 2,
                 clean |-> tp_today.clean /\
                           TriggerPush(push_records, send_calls,
                                       MSG_TYPE_TAKE_PROFIT, Day(now),
                                       out).did \in {"sent", "skipped"}]
           ELSE tp_today
    /\ UNCHANGED <<now, notMonitor>>

\* price_monitor.py:80-89  the stop-loss band is lo..hi
CheckStopLoss(lo, hi, out) ==
    /\ mpc = "stop_loss"
    /\ Condition(StopLossTriggers(lo, hi, m_price), MSG_TYPE_STOP_LOSS, out,
                 "sleep")
    /\ UNCHANGED tp_today
    /\ UNCHANGED <<now, notMonitor>>

\* price_monitor.py:182-183  time.sleep(1), the end of the loop body
Sleep ==
    /\ mpc = "sleep"
    /\ LeaveRec
    /\ m_last' = [m_last EXCEPT !.unpaced = FALSE]
    /\ m_push' = Earlier(m_push)
    /\ UNCHANGED <<push_records, send_calls, tp_today>>
    /\ UNCHANGED <<now, notMonitor>>

InitMonitor ==
    /\ GuardIdle /\ now = 0 /\ MonitorIdle /\ IndicatorIdle /\ ScanIdle
    /\ ConditionIdle /\ UniverseIdle /\ SchedulerIdle /\ IngestIdle /\ EnvIdle

NextMonitor ==
    \/ AdvanceClock
    \/ RunOnceClosed
    \/ \E n \in 0..MaxRecs : RunOnce(n)
    \/ OtherRec
    \/ \E price \in Prices : FetchQuote(price)
    \/ FetchQuoteFails
    \/ \E band \in Bands, out \in PushOutcomes :
           CheckBuy(band[1], band[2], out)
    \/ \E band \in Bands, out \in PushOutcomes :
           CheckTakeProfit(band[1], band[2], out)
    \/ \E band \in Bands, out \in PushOutcomes :
           CheckStopLoss(band[1], band[2], out)
    \/ Sleep

SpecMonitor == InitMonitor /\ [][NextMonitor]_vars

\* ------------------------------------------------------------------------
\* price_monitor.py: _check_price_condition applied to one recommendation
\* and one quote
\* ------------------------------------------------------------------------
CheckPriceCondition ==
    /\ ~chk_out.done
    /\ chk_out' = [done |-> TRUE,
                   pushed |-> check_price_condition(chk_in.rec, chk_in.price)]
    /\ UNCHANGED chk_in
    /\ UNCHANGED notCondition

InitCondition ==
    /\ GuardIdle /\ now = 0 /\ MonitorIdle /\ IndicatorIdle /\ ScanIdle
    /\ UniverseIdle /\ SchedulerIdle /\ IngestIdle /\ EnvIdle
    /\ chk_in \in [rec : Recs, price : Prices]
    /\ chk_out = [done |-> FALSE, pushed |-> {}]

NextCondition == CheckPriceCondition

SpecCondition == InitCondition /\ [][NextCondition]_vars

\* ------------------------------------------------------------------------
\* scanner_cn.py: the strength rule applied to one input
\* ------------------------------------------------------------------------
\* the six conditions of the rule, each as a truth value of its own
SixConditions(x) ==
    << x.ma5 > x.ma10,
       x.ma10 > x.ma20,
       x.close > x.ma5,
       x.macd > x.dea /\ x.macd > 0,
       2 * x.vol > x.volma5,
       x.rs20 # NaN /\ x.rs20 > RS_THRESHOLD_PCT >>

\* is_strong_stock computes the classification of the fetched input
IsStrongStock ==
    /\ ind_out = "pending"
    /\ ind_out' = ComputeStrength(ind_in)
    /\ ind_steps' = StepsOf(ind_in)
    /\ UNCHANGED <<ind_in, ind_flipped>>
    /\ UNCHANGED notIndicator

\* the next input of the symbol: the one just classified Strong with one
\* field changed so that condition c alone becomes false
FlipCondition(c, f, v) ==
    /\ ind_out = "Strong"
    /\ LET x == [ind_in EXCEPT ![f] = v]
       IN  /\ SixConditions(x) = [SixConditions(ind_in) EXCEPT ![c] = FALSE]
           /\ ind_in' = x
    /\ ind_out' = "pending"
    /\ ind_steps' = << >>
    /\ ind_flipped' = c
    /\ UNCHANGED notIndicator

InitIndicator ==
    /\ GuardIdle /\ now = 0 /\ MonitorIdle /\ ScanIdle /\ ConditionIdle /\ UniverseIdle /\ SchedulerIdle /\ IngestIdle /\ EnvIdle
    /\ ind_in \in Inputs
    /\ ind_out = "pending"
    /\ ind_steps = << >>
    /\ ind_flipped = 0

NextIndicator ==
    \/ IsStrongStock
    \/ \E c \in 1..6, f \in DOMAIN FieldVals :
          \E v \in FieldVals[f] : FlipCondition(c, f, v)

SpecIndicator == InitIndicator /\ [][NextIndicator]_vars

\* ------------------------------------------------------------------------
\* scanner_cn.py: scan_market
\* ------------------------------------------------------------------------
\* scanner_cn.py:834-870  a pass starts: the delisted file is loaded, the
\* codes are filtered, results and skipped are empty
StartScan ==
    /\ spc = "idle"
    /\ passes < MaxPasses
    /\ spc' = "loop"
    /\ passes' = passes + 1
    /\ s_delisted' = load_delisted_stocks(delisted)
    /\ s_idx' = 0
    /\ results' = << >>
    /\ skipped' = << >>
    /\ s_trace' = NoTrace
    /\ UNCHANGED <<now, cache, delisted, reading, strong_stocks, lookup,
                   attempts>>
    /\ UNCHANGED notScan

\* the history of a call of is_strong_stock
LookupOf(symbol, c, t, r) ==
    [symbol |-> symbol,
     today |-> Day(t),
     written |-> IF TruthyDict(c[symbol].stock_data)
                 THEN Day(c[symbol].cache_time)
                 ELSE NoDate,
     kind |-> c[symbol].stock_data.kind,
     age |-> t - c[symbol].cache_time,
     hit |-> r.hit,
     fetched |-> r.fetched,
     ext_failed |-> r.ext_failed]

\* scanner_cn.py:872-894  one turn of the loop: is_strong_stock, the append
\* and sort of a truthy answer, log_strong_stock, the except clause, and
\* the sleep, during which the clock goes on by d ticks
ScanSymbol(case, d) ==
    /\ spc = "loop"
    /\ s_idx < Len(CodesOf(s_delisted))
    /\ now + d <= MaxTime
    /\ LET symbol == CodesOf(s_delisted)[s_idx + 1]
           r == is_strong_stock(symbol, case, cache, s_delisted, delisted, now)
       IN  /\ results' = IF TruthyDict(r.res)
                         THEN SortResults(Append(results, r.res))
                         ELSE results
           /\ skipped' = IF TruthyDict(r.res) /\ LogRaises(r.res)
                         THEN Append(skipped, symbol)
                         ELSE skipped
           /\ cache' = r.cache
           /\ delisted' = r.delisted
           /\ lookup' = LookupOf(symbol, cache, now, r)
           /\ s_trace' = IF Raised(r, case)
                         THEN [s_trace EXCEPT !.failed = @ + 1]
                         ELSE s_trace
           /\ spc' = AfterSymbol(Raised(r, case)
                                 \/ (TruthyDict(r.res) /\ LogRaises(r.res)))
    /\ s_idx' = s_idx + 1
    /\ reading' = reading + 1
    /\ now' = now + d
    /\ UNCHANGED <<s_delisted, passes, strong_stocks, attempts>>
    /\ UNCHANGED notScan

\* scanner_cn.py:907-934  the final sort, and for a frame that is not empty
\* the export and then save_strong_stocks_to_db; a PermissionError of the
\* export skips the save, and an exception that leaves the save leaves
\* scan_market too
FinishScan(excel, db) ==
    /\ spc = "loop"
    /\ s_idx = Len(CodesOf(s_delisted))
    /\ LET df == SortResults(results)
       IN  /\ results' = df
           /\ IF df # << >> /\ excel = "ok"
              THEN /\ strong_stocks' =
                          SaveStrongStocksToDb(strong_stocks, df, reading, db)
              ELSE UNCHANGED strong_stocks
           /\ s_trace' =
                  [s_trace EXCEPT
                      !.summary = TRUE,
                      !.steps = EndSteps(strong_stocks, df, reading, excel, db),
                      !.returned = ~(excel = "ok" /\ SaveRaises(df, db))]
    /\ spc' = "idle"
    /\ lookup' = NoLookup
    /\ UNCHANGED <<now, cache, delisted, s_delisted, s_idx, skipped, passes,
                   reading, attempts>>
    /\ UNCHANGED notScan

\* the clock goes on between two passes
Tick ==
    /\ spc = "idle"
    /\ now < MaxTime
    /\ now' = now + 1
    /\ UNCHANGED scanVars
    /\ UNCHANGED notScan

InitScan ==
    /\ GuardIdle /\ now = 0 /\ MonitorIdle /\ IndicatorIdle /\ ScanIdle
    /\ ConditionIdle /\ UniverseIdle /\ SchedulerIdle /\ IngestIdle /\ EnvIdle

NextScan ==
    \/ StartScan
    \/ \E case \in ComputeCases, d \in {0, 1} : ScanSymbol(case, d)
    \/ \E excel \in {"ok", "permission_error"}, db \in DbAnswers :
          FinishScan(excel, db)
    \/ Tick

SpecScan == InitScan /\ [][NextScan]_vars

\* ------------------------------------------------------------------------
\* scanner_cn.py: save_strong_stocks_to_db called with a frame of its own
\* ------------------------------------------------------------------------
SaveCall(df, db) ==
    /\ Len(attempts) < MaxAttempts
    /\ strong_stocks' = SaveStrongStocksToDb(strong_stocks, df, reading, db)
    /\ attempts' = Attempted(attempts, df, reading, db)
    /\ UNCHANGED <<now, cache, delisted, spc, s_delisted, s_idx, results,
                   skipped, passes, reading, lookup, s_trace>>
    /\ UNCHANGED notScan

\* datetime.now() gives a later value than at the last reading
ReadLater ==
    /\ reading < MaxReadings
    /\ reading' = reading + 1
    /\ UNCHANGED <<now, cache, delisted, spc, s_delisted, s_idx, results,
                   skipped, passes, strong_stocks, lookup, attempts, s_trace>>
    /\ UNCHANGED notScan

InitStore ==
    /\ GuardIdle /\ now = 0 /\ MonitorIdle /\ IndicatorIdle /\ ScanIdle
    /\ ConditionIdle /\ UniverseIdle /\ SchedulerIdle /\ IngestIdle /\ EnvIdle

NextStore ==
    \/ \E df \in DfInputs, db \in {"ok", "fails"} : SaveCall(df, db)
    \/ ReadLater

SpecStore == InitStore /\ [][NextStore]_vars

\* ------------------------------------------------------------------------
\* scanner_cn.py: one call of is_strong_stock, the external calls of which
\* may fail
\* ------------------------------------------------------------------------
\* the cache files a symbol can have at time t: none, or a result or a
\* marker written at an earlier time
CacheFiles(symbol, t) ==
    {NoFile}
    \cup {[cache_time |-> w, stock_data |-> PositiveResult(symbol, StrongA)] :
             w \in 0..t}
    \cup {[cache_time |-> w, stock_data |-> NegativeResult(symbol, Day(w))] :
             w \in 0..t}

FetchAndScore(symbol, case) ==
    /\ spc = "idle"
    /\ lookup = NoLookup
    /\ LET r == is_strong_stock(symbol, case, cache,
                                load_delisted_stocks(delisted), delisted, now)
       IN  /\ cache' = r.cache
           /\ delisted' = r.delisted
           /\ lookup' = LookupOf(symbol, cache, now, r)
    /\ UNCHANGED <<now, spc, s_delisted, s_idx, results, skipped, passes,
                   reading, strong_stocks, attempts, s_trace>>
    /\ UNCHANGED notScan

InitFetch ==
    /\ GuardIdle /\ MonitorIdle /\ IndicatorIdle /\ ConditionIdle /\ UniverseIdle /\ SchedulerIdle /\ IngestIdle /\ EnvIdle
    /\ now \in 0..MaxTime
    /\ delisted \in SUBSET Symbols
    /\ \E f \in CacheFiles(Universe[1], now) :
          cache = [sym \in Symbols |-> IF sym = Universe[1] THEN f ELSE NoFile]
    /\ spc = "idle"
    /\ s_delisted = {}
    /\ s_idx = 0
    /\ results = << >>
    /\ skipped = << >>
    /\ passes = 0
    /\ reading = 0
    /\ strong_stocks = {}
    /\ lookup = NoLookup
    /\ attempts = << >>
    /\ s_trace = NoTrace

NextFetch ==
    \E symbol \in Symbols, case \in ComputeCases \cup FailingCalls :
        FetchAndScore(symbol, case)

SpecFetch == InitFetch /\ [][NextFetch]_vars

\* ------------------------------------------------------------------------
\* scanner_cn.py: scan_market from get_all_stock_codes to the summary, with
\* an empty delisted file; of a turn only its outcome and its pacing
\* ------------------------------------------------------------------------
\* scanner_cn.py:848-870
ListUniverse ==
    /\ pace.pc = "idle"
    /\ universe' = [universe EXCEPT
                       !.codes = get_all_stock_codes(universe.live)]
    /\ pace' = [pace EXCEPT !.pc = "loop"]
    /\ UNCHANGED notUniverse

\* scanner_cn.py:872-905  one turn: the try statement, the delay, and
\* after every BATCH_SIZE-th symbol the pause
ScanTurn(ending) ==
    /\ pace.pc = "loop"
    /\ pace.idx < Len(universe.codes)
    /\ pace' = [pc |-> AfterSymbol(ending = "failed"),
                idx |-> pace.idx + 1,
                outcome |-> ending,
                delays |-> pace.delays
                           + (IF SleepsAfter(ending) THEN 1 ELSE 0),
                pauses |-> pace.pauses
                           + (IF PausesAfter(pace.idx + 1, ending)
                              THEN 1 ELSE 0)]
    /\ UNCHANGED universe
    /\ UNCHANGED notUniverse

\* scanner_cn.py:907-924  the final sort and the summary
EndPass ==
    /\ pace.pc = "loop"
    /\ pace.idx = Len(universe.codes)
    /\ pace' = [pace EXCEPT !.pc = "done"]
    /\ UNCHANGED universe
    /\ UNCHANGED notUniverse

InitUniverse ==
    /\ GuardIdle /\ now = 0 /\ MonitorIdle /\ IndicatorIdle /\ ScanIdle
    /\ ConditionIdle
    /\ \E n \in 0..MaxLive :
          \E live \in [1..n -> Tickers] :
              universe = [live |-> live, codes |-> << >>]
    /\ pace = NoPace
    /\ SchedulerIdle /\ IngestIdle /\ EnvIdle

NextUniverse ==
    \/ ListUniverse
    \/ \E ending \in Outcomes : ScanTurn(ending)
    \/ EndPass

SpecUniverse == InitUniverse /\ [][NextUniverse]_vars

\* ------------------------------------------------------------------------
\* scheduler.py: run_scheduler
\* ------------------------------------------------------------------------
\* scheduler.py:160-175  setup_scheduler, then the loop thread is started
RunScheduler ==
    /\ ~sched.set_up
    /\ sched' = [NoSched EXCEPT
                    !.set_up = TRUE,
                    !.jobs = setup_scheduler(tasks),
                    !.alive = TRUE,
                    !.runs = [j \in DOMAIN setup_scheduler(tasks) |-> 0]]
    /\ UNCHANGED tasks
    /\ UNCHANGED notScheduler

\* the next occurrence of trigger j has come
Due(j) ==
    /\ sched.set_up
    /\ j \in DOMAIN sched.jobs
    /\ j \notin sched.due \cup sched.running
    /\ sched.runs[j] < MaxRuns
    /\ sched' = [sched EXCEPT !.due = @ \cup {j}]
    /\ UNCHANGED tasks
    /\ UNCHANGED notScheduler

\* scheduler.py:168-170  run_pending calls the job of a trigger that is due
Dispatch(j) ==
    /\ sched.alive
    /\ j \in sched.due
    /\ RunsInline => sched.running = {}
    /\ sched' = [sched EXCEPT !.due = @ \ {j},
                              !.running = @ \cup {j},
                              !.runs[j] = @ + 1]
    /\ UNCHANGED tasks
    /\ UNCHANGED notScheduler

\* scheduler.py:31-85  _run_task of trigger j ends; an exception that
\* leaves it leaves run_pending and the loop, and the thread is over
EndRun(j, out) ==
    /\ j \in sched.running
    /\ sched' = [sched EXCEPT
                    !.running = @ \ {j},
                    !.alive = @ /\ ~RunTaskEscapes(out),
                    !.failed = IF out = "raises" THEN @ \cup {j} ELSE @]
    /\ UNCHANGED tasks
    /\ UNCHANGED notScheduler

\* the configuration of the runs: a daily scan and a monitor on two days
DefaultTasks ==
    <<[type |-> "scan_market", time |-> "09:30", day_of_week |-> << >>],
      [type |-> "price_monitor", time |-> "09:30",
       day_of_week |-> <<"monday", " Tuesday">>]>>

\* api.py:178-195, webui.py:462-503  one item of a request: the entity is
\* built from the item and saved; when the saved row is not pushed the
\* notification is sent, and on success the flag is set and committed. An
\* exception of the save or of the send is caught for this item alone.
IngestItem(item, db, send) ==
    LET saved == save_ai_recommendation(ai_recs, item)
        sends == db = "ok" /\ ~saved[item.stock_code].is_push_msg
    IN  /\ ai_recs' = IF db = "raises" THEN ai_recs
                      ELSE MarkPushed(saved, item, send)
        /\ ingest' =
              [last |-> [kind |-> "item", stock_code |-> item.stock_code,
                         sent |-> IF sends THEN send ELSE "none"],
               delivered |-> IF sends /\ send = "ok"
                             THEN ingest.delivered \cup {item.stock_code}
                             ELSE ingest.delivered]
        /\ UNCHANGED notIngest

\* price_monitor.py:150-188  a tick reads the recommendations and writes
\* push records only: no statement of run_once assigns is_push_msg
MonitorTick ==
    /\ ingest' = [ingest EXCEPT
                    !.last = [kind |-> "tick", stock_code |-> 0,
                              sent |-> "none"]]
    /\ UNCHANGED ai_recs
    /\ UNCHANGED notIngest

InitIngest ==
    /\ GuardIdle /\ now = 0 /\ MonitorIdle /\ IndicatorIdle /\ ScanIdle
    /\ ConditionIdle /\ UniverseIdle /\ SchedulerIdle /\ IngestIdle /\ EnvIdle

NextIngest ==
    \/ \E item \in Items, db \in SaveAnswers, send \in SendAnswers :
          IngestItem(item, db, send)
    \/ MonitorTick

SpecIngest == InitIngest /\ [][NextIngest]_vars

\* webui.py:404-406, api.py:282-284  the form is posted: the text of the
\* file is read, edited and written back
UpdateStockList(value) ==
    /\ env_text' = set_stock_list(env_text, value)
    /\ env_last' = [done |-> TRUE, before |-> env_text, value |-> value]
    /\ UNCHANGED notEnv

InitEnv ==
    /\ GuardIdle /\ now = 0 /\ MonitorIdle /\ IndicatorIdle /\ ScanIdle
    /\ ConditionIdle /\ UniverseIdle /\ SchedulerIdle /\ IngestIdle
    /\ env_text \in TextsOf(TextChars, MaxText)
    /\ env_last = NoUpdate

NextEnv == \E value \in TextsOf(ValueChars, MaxValue) : UpdateStockList(value)

SpecEnv == InitEnv /\ [][NextEnv]_vars

InitScheduler ==
    /\ GuardIdle /\ now = 0 /\ MonitorIdle /\ IndicatorIdle /\ ScanIdle
    /\ ConditionIdle
    /\ UniverseIdle /\ IngestIdle /\ EnvIdle
    /\ tasks = DefaultTasks
    /\ sched = NoSched

NextScheduler ==
    \/ RunScheduler
    \/ \E j \in DOMAIN sched.jobs : Due(j)
    \/ \E j \in DOMAIN sched.jobs : Dispatch(j)
    \/ \E j \in DOMAIN sched.jobs, out \in RunOutcomes : EndRun(j, out)

SpecScheduler == InitScheduler /\ [][NextScheduler]_vars

\* the triggers of DefaultTasks
Triggers == DOMAIN setup_scheduler(DefaultTasks)

\* scheduler.py:160-173  the thread is started; its loop calls run_pending
\* once a second for as long as it lives, and run_pending goes through all
\* the triggers that are due; every run of a job comes to an end
SchedulerFairness ==
    /\ WF_vars(RunScheduler)
    /\ \A j \in Triggers : SF_vars(Dispatch(j))
    /\ \A j \in Triggers : WF_vars(\E out \in RunOutcomes : EndRun(j, out))

SpecSchedulerLive ==
    InitScheduler /\ [][NextScheduler]_vars /\ SchedulerFairness

\* setup_scheduler on a drawn configuration
InitSetup ==
    /\ GuardIdle /\ now = 0 /\ MonitorIdle /\ IndicatorIdle /\ ScanIdle
    /\ ConditionIdle
    /\ UniverseIdle /\ IngestIdle /\ EnvIdle
    /\ \E n \in 0..MaxTasks : tasks \in [1..n -> TaskConfigs]
    /\ sched = NoSched

NextSetup == RunScheduler

SpecSetup == InitSetup /\ [][NextSetup]_vars

\* ------------------------------------------------------------------------
\* Properties of the guard
\* ------------------------------------------------------------------------
HoldersOf(k) == {t \in Threads : Holding(t) /\ stock_code[t] = k}

C1_AtMostOneHolder == \A k \in Codes : Cardinality(HoldersOf(k)) <= 1

C1_AcceptedIffFree ==
    \A t \in Threads :
        (pc[t] = "test" /\ pc'[t] # "test") =>
            /\ (outcome'[t] = "rejected") <=> (HoldersOf(stock_code[t]) # {})
            /\ (pc'[t] = "try") <=> (HoldersOf(stock_code[t]) = {})

\* C1: of the invocations that contend for one key at most one is between
\* its insert and its removal, an invocation is rejected exactly when
\* another one holds its key, and it is accepted exactly when no invocation
\* holds it (in particular right after the holder released it).
C1_ExactlyOneUntilRelease ==
    []C1_AtMostOneHolder /\ [][C1_AcceptedIffFree]_vars

\* one worker finished and released key k, a later one holds k, and a
\* third was rejected on k
C1_Witness ==
    \E t, u, w \in Threads :
        /\ Cardinality({t, u, w}) = 3
        /\ Holding(t)
        /\ stock_code[u] = stock_code[t] /\ outcome[u] = "rejected"
        /\ stock_code[w] = stock_code[t] /\ pc[w] = "idle"
        /\ outcome[w] \in AnalysisOutcomes

\* C2: every key of the in-flight set belongs to a worker that inserted it
\* and has not finished yet; a worker that has finished, whatever the
\* outcome of its analysis, has left no key behind.
C2_NoKeyOutlivesItsTask ==
    /\ \A k \in ANALYSIS_IN_PROGRESS : HoldersOf(k) # {}
    /\ \A t \in Threads :
          (pc[t] = "idle" /\ HoldersOf(stock_code[t]) = {})
              => stock_code[t] \notin ANALYSIS_IN_PROGRESS
    /\ \A t \in Threads : outcome[t] # "KeyError"

\* a worker whose analysis raised has finished and its key is gone, while
\* others ended with a success and with a failed result
C2_Witness ==
    \E t, u, w \in Threads :
        /\ pc[t] = "idle" /\ outcome[t] = "exception"
        /\ stock_code[t] \notin ANALYSIS_IN_PROGRESS
        /\ pc[u] = "idle" /\ outcome[u] = "failed"
        /\ stock_code[u] \notin ANALYSIS_IN_PROGRESS
        /\ pc[w] = "idle" /\ outcome[w] = "success"
        /\ stock_code[w] \notin ANALYSIS_IN_PROGRESS

\* ------------------------------------------------------------------------
\* C32  A rejected invocation returns at once, without an exception and
\* without running the analysis, and has no effect on the in-flight set:
\* the set holds exactly the keys of the accepted invocations that have
\* not finished, the key of the running task included.
\* ------------------------------------------------------------------------
Accepted(t) == pc[t] \in {"try", "finally", "remove"} /\ outcome[t] # "rejected"

C32_RejectionHasNoEffect ==
    /\ \A t \in Threads : outcome[t] = "rejected" => pc[t] = "idle"
    /\ ANALYSIS_IN_PROGRESS = {stock_code[t] : t \in {u \in Threads : Accepted(u)}}

\* an invocation was rejected while the task holding its key is running
C32_Witness ==
    \E t, u \in Threads :
        /\ outcome[t] = "rejected" /\ pc[t] = "idle"
        /\ pc[u] = "try" /\ stock_code[u] = stock_code[t]
        /\ stock_code[u] \in ANALYSIS_IN_PROGRESS

\* ------------------------------------------------------------------------
\* C34  ANALYSIS_LOCK is held only by a worker inside the test-and-insert
\* or inside the removal, never by one whose analysis runs, and the tasks
\* in progress hold pairwise different keys: the guard excludes per key.
\* ------------------------------------------------------------------------
C34_LockOnlyAroundTheSet ==
    /\ \A t \in Threads : ANALYSIS_LOCK = t => pc[t] \in {"test", "remove"}
    /\ \A t, u \in Threads :
          (t # u /\ pc[t] = "try" /\ pc[u] = "try")
              => stock_code[t] # stock_code[u]

\* two analyses with different keys are in progress at the same time, and
\* nobody holds the lock
C34_Witness ==
    \E t, u \in Threads :
        /\ pc[t] = "try" /\ pc[u] = "try"
        /\ stock_code[t] # stock_code[u]
        /\ {stock_code[t], stock_code[u]} \subseteq ANALYSIS_IN_PROGRESS
        /\ ANALYSIS_LOCK = NoThread

\* ------------------------------------------------------------------------
\* Properties of the monitor
\* ------------------------------------------------------------------------
TpToday == <<MSG_TYPE_TAKE_PROFIT, Day(now)>>

\* C3: for every (message_type, calendar day) of an instrument the push
\* table holds at most one record, whatever the ticks observed.
C3_AtMostOneRecordPerDay == \A k \in Keys : push_records[k] <= 1

\* on the second day two ticks have observed a take-profit price, the second
\* after the record of that day was written, and the first day has its own
\* record
C3_Witness ==
    /\ Day(now) = 1
    /\ tp_today.seen = 2
    /\ push_records[TpToday] = 1
    /\ push_records[<<MSG_TYPE_TAKE_PROFIT, 0>>] = 1

C5_SendOnlyAfterRecord == \A k \in Keys : send_calls[k] > 0 => push_records[k] > 0

C5_NoRetract == \A k \in Keys : push_records'[k] >= push_records[k]

\* C5: notifier.send is called for a key only once its record is in the
\* table, and no step of the monitor, whatever the delivery does, removes a
\* record.
C5_PersistBeforeNotify == []C5_SendOnlyAfterRecord /\ [][C5_NoRetract]_vars

\* a send was attempted for a stop-loss record, which is in the table, while
\* a buy record was saved without any send
C5_Witness ==
    /\ send_calls[<<MSG_TYPE_STOP_LOSS, Day(now)>>] = 1
    /\ push_records[<<MSG_TYPE_STOP_LOSS, Day(now)>>] = 1
    /\ send_calls[<<MSG_TYPE_BUY, Day(now)>>] = 0
    /\ push_records[<<MSG_TYPE_BUY, Day(now)>>] = 1

\* ------------------------------------------------------------------------
\* Properties of the strength rule
\* ------------------------------------------------------------------------
AllSixHold(x) == \A i \in 1..6 : SixConditions(x)[i]

\* the input reaches the rule: it is stopped neither by a pre-filter nor for
\* want of rows or of a required field
ReachesRule(x) ==
    /\ ~(Truthy(x.market_cap) /\ x.market_cap > CAP_CEILING)
    /\ ~(x.low > 0 /\ x.high > 0
          /\ (x.high - x.low) * 100 < MIN_RANGE_PCT * x.low)
    /\ x.rows >= MIN_ROWS
    /\ \A f \in required_fields : x[f] # NaN

\* C6 as stated: for every input, is_strong_stock answers Strong if and only
\* if all six conditions hold.
C6_Original ==
    ind_out # "pending" => (ind_out = "Strong" <=> AllSixHold(ind_in))

\* C6 amended: is_strong_stock answers Strong only if all six conditions
\* hold; for an input that reaches the rule (market cap not above the
\* ceiling, 52-week range unknown or at least 250%, at least 25 rows, no
\* required field missing) it answers Strong whenever all six hold; and an
\* input obtained from a Strong one by making a single condition false is
\* classified Weak.
C6_Amended ==
    ind_out # "pending" =>
        /\ ind_out = "Strong" => AllSixHold(ind_in)
        /\ ReachesRule(ind_in) /\ AllSixHold(ind_in) => ind_out = "Strong"
        /\ ind_flipped # 0 => ind_out = "Weak"

\* Scenario B happened: a Strong input had its volume condition alone made
\* false and was classified again
C6_Witness == ind_flipped = 5 /\ ind_out = "Weak" /\ ReachesRule(ind_in)

\* ------------------------------------------------------------------------
\* C31  An input whose market cap is above the ceiling, or whose 52-week
\* range (high - low) / low is below 250%, is classified Weak whatever its
\* price series, and the call that classifies it fetches no history and
\* computes no indicator.
\* ------------------------------------------------------------------------
AboveCeiling(x) == x.market_cap # None /\ x.market_cap > CAP_CEILING

NarrowRange(x) ==
    x.low > 0 /\ x.high > 0 /\ (x.high - x.low) * 100 < MIN_RANGE_PCT * x.low

C31_PreFiltersShortCircuit ==
    (ind_out # "pending" /\ (AboveCeiling(ind_in) \/ NarrowRange(ind_in)))
        => (ind_out = "Weak" /\ ind_steps = <<"info">>)

\* an input above the ceiling whose six conditions all hold was classified
C31_Witness ==
    /\ ind_out = "Weak"
    /\ AboveCeiling(ind_in)
    /\ AllSixHold(ind_in)
    /\ ind_in.rows >= MIN_ROWS

\* ------------------------------------------------------------------------
\* Properties of the scan pass and of the data cache
\* ------------------------------------------------------------------------
\* C7: a symbol with a false condition, which got a negative marker, is
\* never appended to the results of scan_market in any pass of that day.
C7_WeakNeverInResults ==
    \A i \in DOMAIN results : results[i].kind # "negative"

\* C8: a call of is_strong_stock for a symbol whose cache entry, positive
\* or negative, was written earlier on the same calendar day answers from
\* the cache and makes no external data call.
C8_SameDayEntryNoFetch ==
    (lookup.kind # "none" /\ lookup.written = lookup.today)
        => (lookup.hit /\ ~lookup.fetched)

\* C9: a call of is_strong_stock is answered from the cache only by an
\* entry written on the calendar day of the call, however young the entry.
C9_UsedOnlyOnItsDay ==
    lookup.hit => (lookup.kind # "none" /\ lookup.written = lookup.today)

\* a call found an entry less than 24 hours old written the day before,
\* and did not answer from it
C9_Witness ==
    /\ lookup.kind = "negative"
    /\ lookup.written # lookup.today
    /\ lookup.age < CACHE_TTL
    /\ ~lookup.hit
    /\ lookup.fetched

\* ------------------------------------------------------------------------
\* Properties of the strong_stocks table
\* ------------------------------------------------------------------------
RowsOf(key) == {r \in strong_stocks : KeyOf(r) = key}

WritesOf(key) == {i \in DOMAIN attempts : attempts[i].key = key}

LastWriteOf(key) ==
    attempts[CHOOSE i \in WritesOf(key) : \A j \in WritesOf(key) : j <= i]

\* C10: a key written twice (or more) to a working store has exactly one
\* row, holding the values of the last write; and no key has two rows.
C10_SecondWriteWins ==
    /\ \A i \in DOMAIN attempts :
          Cardinality(WritesOf(attempts[i].key)) >= 2 =>
              /\ Cardinality(RowsOf(attempts[i].key)) = 1
              /\ \A r \in RowsOf(attempts[i].key) :
                    r.dea = LastWriteOf(attempts[i].key).dea
    /\ \A r \in strong_stocks, q \in strong_stocks :
          KeyOf(r) = KeyOf(q) => r = q

\* ------------------------------------------------------------------------
\* Properties of _check_price_condition
\* ------------------------------------------------------------------------
Present(x) == x # None

\* C11: a Buy push happens if and only if both buy bounds are present and
\* buy_min <= price <= buy_max, for every numeric value of the bounds.
C11_BuyIffInBand ==
    chk_out.done =>
        (MSG_TYPE_BUY \in chk_out.pushed <=>
            /\ Present(chk_in.rec.buy_price_min)
            /\ Present(chk_in.rec.buy_price_max)
            /\ chk_in.rec.buy_price_min <= chk_in.price
            /\ chk_in.price <= chk_in.rec.buy_price_max)

\* C12: a Take-profit push happens whenever price >= take_profit_min,
\* whatever take_profit_max is, also when it is absent.
C12_TakeProfitFromFloor ==
    chk_out.done =>
        ((Present(chk_in.rec.take_profit_price_min)
          /\ chk_in.price >= chk_in.rec.take_profit_price_min)
            => MSG_TYPE_TAKE_PROFIT \in chk_out.pushed)

\* C13: a Stop-loss push happens whenever price <= stop_loss_max, whatever
\* stop_loss_min is, also when it is absent.
C13_StopLossFromCeiling ==
    chk_out.done =>
        ((Present(chk_in.rec.stop_loss_price_max)
          /\ chk_in.price <= chk_in.rec.stop_loss_price_max)
            => MSG_TYPE_STOP_LOSS \in chk_out.pushed)

\* ------------------------------------------------------------------------
\* Properties of run_once
\* ------------------------------------------------------------------------
\* a step that is the first run_once since the clock moved
FirstRun == m_last.kind = "none" /\ m_last'.kind # "none"

C14_ClosedRunIsNoOp ==
    FirstRun =>
        IF Slot(now) # 1
        THEN /\ m_last'.kind = "closed"
             /\ ~m_last'.logged
             /\ UNCHANGED <<push_records, send_calls, mpc, m_left, m_done,
                            m_price, tp_today>>
        ELSE /\ m_last'.kind = "open"
             /\ m_left' \in 0..MaxRecs
             /\ mpc' = IF m_left' > 0 THEN "fetch" ELSE "idle"

\* C14: a run_once outside the trading window reads no recommendation,
\* fetches no quote, writes no record, sends nothing and logs nothing; one
\* inside the window reads the recommendations and starts on them.
C14_NoOpOutsideWindow == [][C14_ClosedRunIsNoOp]_vars

\* a run outside the window came after a run of the same day that wrote a
\* record, and left it and everything else alone
C14_Witness ==
    /\ m_last.kind = "closed"
    /\ Slot(now) = 2
    /\ \E ty \in MsgTypes : push_records[<<ty, Day(now)>>] > 0

\* a tick is over only when every recommendation of its list was taken up
C15_ListExhausted == mpc = "idle" => m_left = 0

\* the recommendations of the list are taken up one by one, whatever
\* happened to the one before
C15_OneByOne ==
    (mpc # "idle" /\ m_left' # m_left) =>
        /\ m_left' = m_left - 1
        /\ mpc' = IF m_left' > 0 THEN "fetch" ELSE "idle"

\* C15: a recommendation whose quote is missing or whose fetch or
\* evaluation raises is the only one skipped: the loop goes on with the
\* next recommendation and the tick ends with the list exhausted.
C15_FailureSkipsOnlyOne == []C15_ListExhausted /\ [][C15_OneByOne]_vars

\* TheStock's recommendation failed in this tick and the loop is at the
\* fetch of a later recommendation
C15_Witness == m_last.failed /\ mpc = "fetch" /\ m_left >= 1

\* ------------------------------------------------------------------------
\* C36  Every row of the strong_stocks table is the result of a symbol
\* classified Strong: no negative cache marker is ever written to it.
\* ------------------------------------------------------------------------
C36_OnlyStrongPersisted == \A row \in strong_stocks : row.kind = "positive"

\* ------------------------------------------------------------------------
\* C37  When a pass writes its summary, no symbol is both in results and in
\* skipped, and the two counts together do not exceed the number of
\* symbols scanned.
\* ------------------------------------------------------------------------
C37_CountsAreConsistent ==
    s_trace.summary =>
        /\ {results[i].code : i \in DOMAIN results}
               \cap {skipped[i] : i \in DOMAIN skipped} = {}
        /\ Len(results) + Len(skipped) <= Len(CodesOf(s_delisted))

\* ------------------------------------------------------------------------
\* C16  A failure while fetching or scoring a symbol never aborts the pass:
\* while the loop runs the symbols are taken one after the other, whatever
\* failed, and a pass is over only after its last symbol, with the final
\* summary written.
\* ------------------------------------------------------------------------
C16_AllScanned ==
    (spc = "idle" /\ passes > 0) =>
        /\ s_idx = Len(CodesOf(s_delisted))
        /\ s_trace.summary

C16_InOrder ==
    (spc = "loop" /\ s_idx' # s_idx) => (s_idx' = s_idx + 1 /\ spc' = "loop")

C16_FailureNeverAborts == []C16_AllScanned /\ [][C16_InOrder]_vars

\* a pass is over in which the scoring of one symbol raised and the log of
\* another did
C16_Witness ==
    /\ spc = "idle"
    /\ s_trace.summary
    /\ s_trace.failed >= 1
    /\ s_idx = Len(Universe)
    /\ skipped # << >>

\* ------------------------------------------------------------------------
\* C17  At the end of a pass the skipped count of the final summary is the
\* number of symbols whose fetch or scoring failed with an error during
\* that pass.
\* ------------------------------------------------------------------------
C17_SkippedCountsFailures ==
    (spc = "idle" /\ s_trace.summary) => Len(skipped) = s_trace.failed

\* ------------------------------------------------------------------------
\* C18  The Strong results of a pass are in ascending order of their 20-day
\* return after every insertion, and so is the list at the end of the pass,
\* the one that is exported and persisted.
\* ------------------------------------------------------------------------
C18_SortedByReturn ==
    \A i, j \in DOMAIN results :
        (i < j /\ results[i].kind = "positive" /\ results[j].kind = "positive")
            => results[i].rs <= results[j].rs

\* the symbol scanned second has the smaller return and stands first
C18_Witness ==
    /\ Len(results) = 2
    /\ results[1].kind = "positive" /\ results[2].kind = "positive"
    /\ results[1].code = Universe[2]
    /\ results[1].rs < results[2].rs

\* ------------------------------------------------------------------------
\* C19  A pass that found at least one Strong result persists its Strong
\* results after the loop and before the export is written: unless the
\* store fails they are in the table at the end of the pass, and no export
\* is written before the save.
\* ------------------------------------------------------------------------
StoreFailed ==
    \E i \in DOMAIN s_trace.steps :
        s_trace.steps[i] \in {"rollback", "save_raised"}

C19_PersistedBeforeExport ==
    (/\ spc = "idle"
     /\ s_trace.summary
     /\ \E i \in DOMAIN results : results[i].kind = "positive") =>
        /\ ~StoreFailed =>
              \E i \in DOMAIN s_trace.steps : s_trace.steps[i] = "save"
        /\ \A i \in DOMAIN s_trace.steps :
              s_trace.steps[i] = "export" =>
                  \E j \in 1..(i - 1) : s_trace.steps[j] = "save"

\* ------------------------------------------------------------------------
\* C20  A storage failure while the rows of a pass are upserted rolls the
\* transaction back: the end of such a pass leaves the table as it was,
\* with no row of the batch in it, save_strong_stocks_to_db does not raise
\* and scan_market returns its result.
\* ------------------------------------------------------------------------
C20_EndWithRollback ==
    /\ spc = "loop"
    /\ spc' = "idle"
    /\ \E i \in DOMAIN s_trace'.steps : s_trace'.steps[i] = "rollback"

C20_NothingPersisted ==
    C20_EndWithRollback =>
        /\ strong_stocks' = strong_stocks
        /\ \A r \in strong_stocks' : r.scan_time # reading
        /\ s_trace'.returned

C20_RollbackAndContinue == [][C20_NothingPersisted]_vars

\* a pass with a Strong result is over, its export written and its upsert
\* rolled back
C20_Witness ==
    /\ spc = "idle"
    /\ s_trace.steps = <<"export", "rollback">>
    /\ s_trace.returned
    /\ \E i \in DOMAIN results : results[i].kind = "positive"

\* ------------------------------------------------------------------------
\* C21  The delisted set only grows, and a symbol that is in it is not
\* handed to is_strong_stock by any later turn of a scan pass: it is
\* neither fetched nor scored again.
\* ------------------------------------------------------------------------
C21_Step ==
    /\ delisted \subseteq delisted'
    /\ (spc = "loop" /\ s_idx' = s_idx + 1) =>
          /\ lookup'.symbol \notin delisted
          /\ lookup'.symbol \notin s_delisted

C22_KeywordFailureDelists ==
    lookup.ext_failed # "none" => lookup.symbol \in delisted

C24_NoCodeTwice ==
    pace.pc # "idle" =>
        \A i, j \in DOMAIN universe.codes :
            universe.codes[i].code = universe.codes[j].code => i = j

\* ------------------------------------------------------------------------
\* C25  A pacing delay follows every symbol of a pass and a pause every
\* BATCH_SIZE-th symbol, whatever the outcome of the symbol was: after n
\* symbols there were n delays and n / BATCH_SIZE pauses.
\* ------------------------------------------------------------------------
C25_PacedAndPaused ==
    /\ pace.delays = pace.idx
    /\ pace.pauses = pace.idx \div BATCH_SIZE

\* the BATCH_SIZE-th symbol failed, the pause was made and the next symbol
\* is taken
C25_Witness ==
    /\ pace.idx = BATCH_SIZE
    /\ pace.outcome = "failed"
    /\ pace.pauses = 1
    /\ pace.pc = "loop"

\* ------------------------------------------------------------------------
\* C26  Within a tick the pacing delay stands between every two successive
\* quote fetches, also after a fetch that gave no quote or raised: the loop
\* never comes to its next fetch with the delay of the last one missing.
\* ------------------------------------------------------------------------
C26_DelayBetweenFetches == mpc = "fetch" => ~m_last.unpaced

\* ------------------------------------------------------------------------
\* C27  Whatever exception the run of a scheduled job raises is caught
\* inside _run_task, so that once the scheduler is set up its loop thread
\* keeps running and goes on dispatching every job.
\* ------------------------------------------------------------------------
C27_FailingJobNeverHaltsLoop == sched.set_up => sched.alive

\* ------------------------------------------------------------------------
\* C35  When every run of a job comes to an end, a trigger that comes due
\* while another job is executing is not dropped: its job is dispatched
\* after the running one is over.
\* ------------------------------------------------------------------------
C35_DueIsDispatched ==
    \A j \in Triggers :
        (j \in sched.due /\ sched.running # {}) ~> (j \in sched.running)

\* ------------------------------------------------------------------------
\* C28  The runs the scheduler dispatches are serial: no scan_market run
\* and price-monitor tick are executing at once, nor any two jobs.
\* ------------------------------------------------------------------------
C28_Serial ==
    /\ Cardinality(sched.running) <= 1
    /\ ~\E j, k \in sched.running :
          /\ sched.jobs[j].task_name = "scan_market"
          /\ sched.jobs[k].task_name = "price_monitor"

\* the monitor is due while a scan is executing
C28_Witness ==
    \E j \in sched.running, k \in sched.due :
        /\ sched.jobs[j].task_name = "scan_market"
        /\ sched.jobs[k].task_name = "price_monitor"

\* ------------------------------------------------------------------------
\* C29  For a valid task setup_scheduler registers exactly one daily
\* trigger when the days of the week are omitted, and exactly one trigger
\* per listed weekday otherwise, every one of them with the task's type,
\* configuration and time.
\* ------------------------------------------------------------------------
ValidTask(task) == task.type \in TASK_REGISTRY /\ TimeValid(task.time)

TriggersOf(i, every) ==
    {j \in DOMAIN sched.jobs :
        sched.jobs[j].tag = i - 1 /\ sched.jobs[j].every = every}

ListedAs(task, day) ==
    {n \in DOMAIN task.day_of_week : Normalise(task.day_of_week[n]) = day}

C29_OneTriggerPerDay ==
    sched.set_up =>
        \A i \in DOMAIN tasks :
            ValidTask(tasks[i]) =>
                /\ Cardinality(TriggersOf(i, "day")) =
                       (IF tasks[i].day_of_week = << >> THEN 1 ELSE 0)
                /\ \A day \in Weekdays :
                       Cardinality(TriggersOf(i, day)) =
                           Cardinality(ListedAs(tasks[i], day))
                /\ \A j \in DOMAIN sched.jobs :
                       sched.jobs[j].tag = i - 1 =>
                           /\ sched.jobs[j].task_name = tasks[i].type
                           /\ sched.jobs[j].task_config = tasks[i]
                           /\ sched.jobs[j].at = tasks[i].time

\* a daily task and a task of two weekdays, one of them spelled its own
\* way, have their three triggers
C29_Witness ==
    /\ sched.set_up
    /\ Len(tasks) = 2
    /\ ValidTask(tasks[1]) /\ tasks[1].day_of_week = << >>
    /\ ValidTask(tasks[2]) /\ tasks[2].day_of_week = <<"monday", " Tuesday">>
    /\ Len(sched.jobs) = 3

\* ------------------------------------------------------------------------
\* C30  The is_push_msg flag of a stored recommendation goes from false to
\* true only in the handling of an item of that stock code whose
\* notification send answered success; a failed or raising send leaves it
\* false and a monitor tick never changes it.
\* ------------------------------------------------------------------------
C30_Step ==
    \A c \in Codes :
        (ai_recs[c].stored /\ ~ai_recs[c].is_push_msg
            /\ ai_recs'[c].is_push_msg)
        => (ingest'.last = [kind |-> "item", stock_code |-> c,
                            sent |-> "ok"])

C30_PushedOnlyAfterDelivery == [][C30_Step]_vars

\* ------------------------------------------------------------------------
\* C33  Every line of the .env text that does not assign STOCK_LIST is in
\* the text _set_stock_list returns, unchanged and in the same order,
\* whatever the text and the new value. The lines of a text are what a
\* reader of the file takes for its lines: the pieces between newlines.
\* ------------------------------------------------------------------------
RECURSIVE IsSubsequence(_, _)
IsSubsequence(small, big) ==
    IF small = << >> THEN TRUE
    ELSE IF big = << >> THEN FALSE
    ELSE IF Head(small) = Head(big)
         THEN IsSubsequence(Tail(small), Tail(big))
         ELSE IsSubsequence(small, Tail(big))

OtherLines(text) ==
    SelectSeq(splitlines_newlineOnly(text), LAMBDA line : ~STOCK_LIST_RE(line))

C33_OtherLinesPreserved ==
    env_last.done =>
        IsSubsequence(OtherLines(env_last.before),
                      splitlines_newlineOnly(env_text))

\* ------------------------------------------------------------------------
\* C38: for TheStock on one day the three alert conditions are deduplicated
\* per message type: a _trigger_push returns at line 98 only when a record
\* of its own type exists for today, whatever records of the other types
\* exist; and one run_once evaluates the three conditions in turn, each of
\* which can write its record.
\* ------------------------------------------------------------------------
C38_DedupPerMessageType ==
    /\ \A ty \in m_push.skipped : push_records[<<ty, Day(now)>>] > 0
    /\ \A ty \in m_push.saved : push_records[<<ty, Day(now)>>] > 0

\* the buy alert of this run was skipped for its record of today, and the
\* same run recorded the take-profit and the stop-loss alert
C38_Witness ==
    /\ m_push.skipped = {MSG_TYPE_BUY}
    /\ m_push.saved = {MSG_TYPE_TAKE_PROFIT, MSG_TYPE_STOP_LOSS}
    /\ push_records[<<MSG_TYPE_TAKE_PROFIT, Day(now)>>] = 1
    /\ push_records[<<MSG_TYPE_STOP_LOSS, Day(now)>>] = 1

\* ------------------------------------------------------------------------
\* C39: when save_push_record raises inside _trigger_push, notifier.send is
\* not called and no record of that type exists for today, the run goes on
\* with the next condition (after the stop-loss condition, with the sleep
\* that ends the loop body and so with the next recommendation), and the
\* lookup of a later run_once of the day does not skip that alert.
\* ------------------------------------------------------------------------
ConditionAfter(at) ==
    CASE at = "buy" -> "take_profit"
      [] at = "take_profit" -> "stop_loss"
      [] at = "stop_loss" -> "sleep"
      [] OTHER -> at

\* the save of this step's _trigger_push raised
SaveFails == m_push'.unsaved \ m_push.unsaved # {}

C39_Step ==
    /\ SaveFails =>
           /\ mpc' = ConditionAfter(mpc)
           /\ m_left' = m_left
           /\ UNCHANGED <<push_records, send_calls>>
    /\ \A ty \in m_push'.unsaved :
           /\ push_records'[<<ty, Day(now')>>] = 0
           /\ send_calls'[<<ty, Day(now')>>] = 0
    /\ (/\ m_push'.tp_failed_today
        /\ push_records'[<<MSG_TYPE_TAKE_PROFIT, Day(now')>>] = 0)
           => MSG_TYPE_TAKE_PROFIT \notin m_push'.skipped

C39_FailedSaveIsRetried == [][C39_Step]_vars

\* the save of the take-profit record failed in an earlier run_once of the
\* day, and this run_once has recorded and sent the alert
C39_Witness ==
    /\ m_push.tp_failed_today
    /\ MSG_TYPE_TAKE_PROFIT \in m_push.saved
    /\ push_records[<<MSG_TYPE_TAKE_PROFIT, Day(now)>>] = 1
    /\ send_calls[<<MSG_TYPE_TAKE_PROFIT, Day(now)>>] = 1

====
